---- MODULE Spec2Model ----
(***************************************************************************)
(* Model of pg2zod's type-resolution and constraint-translation engine:    *)
(* mapColumnToZod / mapBaseTypeToZod / applyCheckConstraints of            *)
(* src/src/type-mapper.ts and generateSchemas of src/src/generator.ts.     *)
(*                                                                         *)
(* Text is modelled as a sequence of tokens.  Names, clause texts and      *)
(* everything the code inspects character by character are sequences of    *)
(* one-character strings; the fixed fragments the code emits are single    *)
(* tokens, with "z.number()", "z.bigint()" and "z.string()" always tokens  *)
(* of their own, so that String.includes / String.replace on them are      *)
(* token searches.                                                         *)
(***************************************************************************)
EXTENDS Integers, Sequences, FiniteSets, TLC

VARIABLES
    metadata,       \* DatabaseMetadata handed to the operation
    options,        \* SchemaGenerationOptions
    column,         \* ColumnMetadata handed to mapColumnToZod
    columnName,     \* applyCheckConstraints: columnName argument
    baseSchema,     \* applyCheckConstraints: baseSchema argument
    constraints,    \* applyCheckConstraints: constraints argument
    warnings,       \* the warnings list of the run
    result,         \* value returned by the operation (NoResult before / on throw)
    error,          \* message of the Error that escaped (NoError if none)
    pc,             \* position of the run
    enums, ranges, compositeTypes, domains, schemas,  \* locals of generateSchemas
    output          \* the document formatOutput returns (empty before)

vars == <<metadata, options, column, columnName, baseSchema, constraints,
          warnings, result, error, pc, enums, ranges, compositeTypes, domains, schemas,
          output>>

-----------------------------------------------------------------------------
(* JavaScript values *)

\* null of a number-valued field
null == -1

\* null of a string-valued field
nullStr == <<"<null>">>

\* JS truthiness of a number | null
Truthy(n) == n # null /\ n # 0

\* JS truthiness of a string | null
TruthyStr(s) == s # nullStr /\ s # <<>>

NoResult == <<"<no result>">>
NoError == <<"<no error>">>

LowerLetters == <<"a","b","c","d","e","f","g","h","i","j","k","l","m",
                  "n","o","p","q","r","s","t","u","v","w","x","y","z">>
UpperLetters == <<"A","B","C","D","E","F","G","H","I","J","K","L","M",
                  "N","O","P","Q","R","S","T","U","V","W","X","Y","Z">>

\* String.prototype.toUpperCase on one character
toUpperCaseChar(c) ==
    IF \E i \in 1..26 : LowerLetters[i] = c
    THEN UpperLetters[CHOOSE i \in 1..26 : LowerLetters[i] = c]
    ELSE c

\* String.prototype.toLowerCase on one character
toLowerCaseChar(c) ==
    IF \E i \in 1..26 : UpperLetters[i] = c
    THEN LowerLetters[CHOOSE i \in 1..26 : UpperLetters[i] = c]
    ELSE c

\* toLowerCase that leaves the text as it is
toLowerCase_asIs(s) == s

\* String.prototype.toLowerCase
toLowerCase(s) == [i \in 1..Len(s) |-> toLowerCaseChar(s[i])]

\* String.prototype.startsWith
startsWith(s, p) == Len(s) >= Len(p) /\ SubSeq(s, 1, Len(p)) = p

\* String.prototype.substring(from)
substring(s, from) == SubSeq(s, from + 1, Len(s))

\* String.prototype.split on a one-character separator
RECURSIVE split(_, _)
split(s, sep) ==
    IF \A i \in 1..Len(s) : s[i] # sep
    THEN <<s>>
    ELSE LET k == CHOOSE i \in 1..Len(s) : s[i] = sep /\ \A j \in 1..(i-1) : s[j] # sep
         IN  <<SubSeq(s, 1, k - 1)>> \o split(SubSeq(s, k + 1, Len(s)), sep)

\* Array.prototype.join with a token-sequence separator
RECURSIVE join(_, _)
join(parts, sep) ==
    IF Len(parts) = 0 THEN <<>>
    ELSE IF Len(parts) = 1 THEN parts[1]
    ELSE parts[1] \o sep \o join(Tail(parts), sep)

\* String.prototype.includes for a token
includes(s, tok) == \E i \in 1..Len(s) : s[i] = tok

\* String.prototype.replace(tok, repl): rewrites the first occurrence only
replace(s, tok, repl) ==
    IF ~includes(s, tok) THEN s
    ELSE LET k == CHOOSE i \in 1..Len(s) : s[i] = tok /\ \A j \in 1..(i-1) : s[j] # tok
         IN  SubSeq(s, 1, k - 1) \o repl \o SubSeq(s, k + 1, Len(s))

\* Array.prototype.find over a list of records, by the field the caller compares:
\* index of the first entry whose key equals name, 0 when there is none
find(keys, name) ==
    IF \E i \in 1..Len(keys) : keys[i] = name
    THEN CHOOSE i \in 1..Len(keys) : keys[i] = name /\ \A j \in 1..(i-1) : keys[j] # name
    ELSE 0

-----------------------------------------------------------------------------
(* src/src/type-mapper.ts *)

\* word.charAt(0).toUpperCase() + word.slice(1).toLowerCase()
pascalWord(word) ==
    IF Len(word) = 0 THEN <<>>
    ELSE <<toUpperCaseChar(word[1])>> \o toLowerCase(SubSeq(word, 2, Len(word)))

toPascalCase(str) ==
    LET words == split(str, "_")
    IN  join([i \in 1..Len(words) |-> pascalWord(words[i])], <<>>)

toCamelCase(str) ==
    LET pascal == toPascalCase(str)
    IN  IF Len(pascal) = 0 THEN <<>>
        ELSE <<toLowerCaseChar(pascal[1])>> \o SubSeq(pascal, 2, Len(pascal))

\* the switch of mapBaseTypeToZod found no case
Unmapped == <<"<default>">>

\* the switch (typeToCheck) of mapBaseTypeToZod, default branch excluded
builtinType(typeToCheck, col) ==
    CASE typeToCheck \in {<<"s", "m", "a", "l", "l", "i", "n", "t">>, <<"i", "n", "t", "e", "g", "e", "r">>, <<"i", "n", "t">>, <<"i", "n", "t", "2">>, <<"i", "n", "t", "4">>} ->
           <<"z.number()", ".int()">>
      [] typeToCheck \in {<<"b", "i", "g", "i", "n", "t">>, <<"i", "n", "t", "8">>} ->
           <<"z.bigint()">>
      [] typeToCheck \in {<<"d", "e", "c", "i", "m", "a", "l">>, <<"n", "u", "m", "e", "r", "i", "c">>} ->
           IF col.numericPrecision # null /\ col.numericScale # null
           THEN <<"z.number()", " /* precision: ", ToString(col.numericPrecision), ", scale: ", ToString(col.numericScale), " */">>
           ELSE <<"z.number()">>
      [] typeToCheck \in {<<"r", "e", "a", "l">>, <<"f", "l", "o", "a", "t", "4">>} ->
           <<"z.number()">>
      [] typeToCheck \in {<<"d", "o", "u", "b", "l", "e", " ", "p", "r", "e", "c", "i", "s", "i", "o", "n">>, <<"f", "l", "o", "a", "t", "8">>} ->
           <<"z.number()">>
      [] typeToCheck \in {<<"m", "o", "n", "e", "y">>} ->
           <<"z.string()", ".regex(/^\\$?[0-9,]+(\\.\\d{2})?$/)">>
      [] typeToCheck \in {<<"c", "h", "a", "r", "a", "c", "t", "e", "r", " ", "v", "a", "r", "y", "i", "n", "g">>, <<"v", "a", "r", "c", "h", "a", "r">>} ->
           IF Truthy(col.characterMaximumLength)
           THEN <<"z.string()", ".max(", ToString(col.characterMaximumLength), ")">>
           ELSE <<"z.string()">>
      [] typeToCheck \in {<<"c", "h", "a", "r", "a", "c", "t", "e", "r">>, <<"c", "h", "a", "r">>} ->
           IF Truthy(col.characterMaximumLength)
           THEN <<"z.string()", ".length(", ToString(col.characterMaximumLength), ")">>
           ELSE <<"z.string()">>
      [] typeToCheck \in {<<"t", "e", "x", "t">>} ->
           <<"z.string()">>
      [] typeToCheck \in {<<"c", "i", "t", "e", "x", "t">>} ->
           <<"z.string()">>
      [] typeToCheck \in {<<"b", "o", "o", "l", "e", "a", "n">>, <<"b", "o", "o", "l">>} ->
           <<"z.boolean()">>
      [] typeToCheck \in {<<"t", "i", "m", "e", "s", "t", "a", "m", "p">>, <<"t", "i", "m", "e", "s", "t", "a", "m", "p", " ", "w", "i", "t", "h", "o", "u", "t", " ", "t", "i", "m", "e", " ", "z", "o", "n", "e">>} ->
           <<"z.date()">>
      [] typeToCheck \in {<<"t", "i", "m", "e", "s", "t", "a", "m", "p", " ", "w", "i", "t", "h", " ", "t", "i", "m", "e", " ", "z", "o", "n", "e">>, <<"t", "i", "m", "e", "s", "t", "a", "m", "p", "t", "z">>} ->
           <<"z.date()">>
      [] typeToCheck \in {<<"d", "a", "t", "e">>} ->
           <<"z.date()">>
      [] typeToCheck \in {<<"t", "i", "m", "e">>, <<"t", "i", "m", "e", " ", "w", "i", "t", "h", "o", "u", "t", " ", "t", "i", "m", "e", " ", "z", "o", "n", "e">>} ->
           <<"z.iso.time()">>
      [] typeToCheck \in {<<"t", "i", "m", "e", " ", "w", "i", "t", "h", " ", "t", "i", "m", "e", " ", "z", "o", "n", "e">>, <<"t", "i", "m", "e", "t", "z">>} ->
           <<"z.string()", ".regex(/^\\d{2}:\\d{2}:\\d{2}(\\.\\d+)?[+-]\\d{2}:\\d{2}$/)">>
      [] typeToCheck \in {<<"i", "n", "t", "e", "r", "v", "a", "l">>} ->
           <<"z.iso.duration()">>
      [] typeToCheck \in {<<"u", "u", "i", "d">>} ->
           <<"z.uuid()">>
      [] typeToCheck \in {<<"j", "s", "o", "n">>} ->
           <<"z.record(", "z.string()", ", z.unknown())">>
      [] typeToCheck \in {<<"j", "s", "o", "n", "b">>} ->
           <<"z.record(", "z.string()", ", z.unknown())">>
      [] typeToCheck \in {<<"i", "n", "e", "t">>} ->
           <<"z.union([z.ipv4(), z.ipv6()])">>
      [] typeToCheck \in {<<"c", "i", "d", "r">>} ->
           <<"z.union([z.cidrv4(), z.cidrv6()])">>
      [] typeToCheck \in {<<"m", "a", "c", "a", "d", "d", "r">>} ->
           <<"z.mac()">>
      [] typeToCheck \in {<<"m", "a", "c", "a", "d", "d", "r", "8">>} ->
           <<"z.string()", ".regex(/^([0-9A-Fa-f]{2}[:-]){7}([0-9A-Fa-f]{2})$/)">>
      [] typeToCheck \in {<<"b", "i", "t">>} ->
           IF Truthy(col.characterMaximumLength)
           THEN <<"z.string()", ".regex(/^[01]{", ToString(col.characterMaximumLength), "}$/)">>
           ELSE <<"z.string()", ".regex(/^[01]+$/)">>
      [] typeToCheck \in {<<"b", "i", "t", " ", "v", "a", "r", "y", "i", "n", "g">>, <<"v", "a", "r", "b", "i", "t">>} ->
           IF Truthy(col.characterMaximumLength)
           THEN <<"z.string()", ".regex(/^[01]{0,", ToString(col.characterMaximumLength), "}$/)">>
           ELSE <<"z.string()", ".regex(/^[01]*$/)">>
      [] typeToCheck \in {<<"p", "o", "i", "n", "t">>} ->
           <<"z.tuple([", "z.number()", ", ", "z.number()", "])">>
      [] typeToCheck \in {<<"l", "i", "n", "e">>} ->
           <<"z.object({ a: ", "z.number()", ", b: ", "z.number()", ", c: ", "z.number()", " })">>
      [] typeToCheck \in {<<"l", "s", "e", "g">>} ->
           <<"z.tuple([z.tuple([", "z.number()", ", ", "z.number()", "]), z.tuple([", "z.number()", ", ", "z.number()", "])])">>
      [] typeToCheck \in {<<"b", "o", "x">>} ->
           <<"z.tuple([z.tuple([", "z.number()", ", ", "z.number()", "]), z.tuple([", "z.number()", ", ", "z.number()", "])])">>
      [] typeToCheck \in {<<"p", "a", "t", "h">>} ->
           <<"z.array(z.tuple([", "z.number()", ", ", "z.number()", "]))">>
      [] typeToCheck \in {<<"p", "o", "l", "y", "g", "o", "n">>} ->
           <<"z.array(z.tuple([", "z.number()", ", ", "z.number()", "]))">>
      [] typeToCheck \in {<<"c", "i", "r", "c", "l", "e">>} ->
           <<"z.object({ center: z.tuple([", "z.number()", ", ", "z.number()", "]), radius: ", "z.number()", " })">>
      [] typeToCheck \in {<<"t", "s", "v", "e", "c", "t", "o", "r">>} ->
           <<"z.string()", " /* tsvector */">>
      [] typeToCheck \in {<<"t", "s", "q", "u", "e", "r", "y">>} ->
           <<"z.string()", " /* tsquery */">>
      [] typeToCheck \in {<<"x", "m", "l">>} ->
           <<"z.string()", " /* XML */">>
      [] typeToCheck \in {<<"b", "y", "t", "e", "a">>} ->
           <<"z.instanceof(Buffer)">>
      [] typeToCheck \in {<<"o", "i", "d">>} ->
           <<"z.number()", ".int().positive()">>
      [] typeToCheck \in {<<"r", "e", "g", "p", "r", "o", "c">>, <<"r", "e", "g", "p", "r", "o", "c", "e", "d", "u", "r", "e">>, <<"r", "e", "g", "o", "p", "e", "r">>, <<"r", "e", "g", "o", "p", "e", "r", "a", "t", "o", "r">>, <<"r", "e", "g", "c", "l", "a", "s", "s">>, <<"r", "e", "g", "t", "y", "p", "e">>, <<"r", "e", "g", "r", "o", "l", "e">>, <<"r", "e", "g", "n", "a", "m", "e", "s", "p", "a", "c", "e">>, <<"r", "e", "g", "c", "o", "n", "f", "i", "g">>, <<"r", "e", "g", "d", "i", "c", "t", "i", "o", "n", "a", "r", "y">>} ->
           <<"z.string()", " /* PostgreSQL OID reference */">>
      [] typeToCheck \in {<<"p", "g", "_", "l", "s", "n">>} ->
           <<"z.string()", ".regex(/^[0-9A-F]+\\/[0-9A-F]+$/)">>
      [] OTHER -> Unmapped

\* options.customTypeMappings?.[udtName], as the condition of the if
\* hasCustomTypeMapping that never finds an entry
hasCustomTypeMapping_never(opts, udtName) == FALSE

hasCustomTypeMapping(opts, udtName) ==
    /\ udtName \in DOMAIN opts.customTypeMappings
    /\ opts.customTypeMappings[udtName] # <<>>

\* elementUdtName without the array-prefix strip
elementUdtName_noStrip(col) == col.udtName

\* the udtName local of mapBaseTypeToZod after the array-prefix strip
elementUdtName(col) ==
    IF col.isArray /\ startsWith(col.udtName, <<"_">>)
    THEN substring(col.udtName, 1)
    ELSE col.udtName

\* the warning text of the default branch
unknownTypeWarning(col) ==
    <<"Unknown type: ">> \o toLowerCase(col.dataType) \o <<" (udt: ">>
        \o elementUdtName(col) \o <<") in column ">> \o col.columnName

\* Result of a call that may throw: value, the warnings list afterwards,
\* and the error that escaped
Returned(v, w) == [value |-> v, warnings |-> w, threw |-> FALSE, error |-> NoError]
Threw(e, w) == [value |-> NoResult, warnings |-> w, threw |-> TRUE, error |-> e]

\* unmappedType that records no warning
unmappedType_noWarning(col, opts, warns) ==
    IF opts.strictMode
    THEN Threw(unknownTypeWarning(col), warns)
    ELSE Returned(<<"z.unknown() /* unmapped type */">>, warns)

\* unmappedType that ignores options.strictMode
unmappedType_noThrow(col, opts, warns) ==
    Returned(<<"z.unknown() /* unmapped type */">>, Append(warns, unknownTypeWarning(col)))

\* the default branch of the switch of mapBaseTypeToZod
\* unmappedType that throws without strictMode too
unmappedType_alwaysThrows(col, opts, warns) ==
    Threw(unknownTypeWarning(col), Append(warns, unknownTypeWarning(col)))

unmappedType(col, opts, warns) ==
    IF opts.strictMode
    THEN Threw(unknownTypeWarning(col), Append(warns, unknownTypeWarning(col)))
    ELSE Returned(<<"z.unknown() /* unmapped type */">>, Append(warns, unknownTypeWarning(col)))

\* mapBaseTypeToZod that looks the range types up before the enums
mapBaseTypeToZod_rangeFirst(col, md, opts, warns) ==
    LET udtName == elementUdtName(col)
        dataType == toLowerCase(col.dataType)
        enumIdx == find([i \in 1..Len(md.enums) |-> md.enums[i].enumName], udtName)
        compIdx == find([i \in 1..Len(md.compositeTypes) |-> md.compositeTypes[i].typeName], udtName)
        rangeIdx == find([i \in 1..Len(md.rangeTypes) |-> md.rangeTypes[i].rangeName], udtName)
        typeToCheck == IF dataType = <<"a","r","r","a","y">> THEN udtName ELSE dataType
        builtin == builtinType(typeToCheck, col)
    IN  IF hasCustomTypeMapping(opts, udtName)
          THEN Returned(opts.customTypeMappings[udtName], warns)
        ELSE IF rangeIdx # 0
          THEN Returned(toPascalCase(md.rangeTypes[rangeIdx].schemaName)
                          \o toPascalCase(md.rangeTypes[rangeIdx].rangeName) \o <<"Schema">>, warns)
        ELSE IF enumIdx # 0
          THEN Returned(toPascalCase(md.enums[enumIdx].schemaName)
                          \o toPascalCase(md.enums[enumIdx].enumName) \o <<"Schema">>, warns)
        ELSE IF compIdx # 0
          THEN Returned(toPascalCase(md.compositeTypes[compIdx].schemaName)
                          \o toPascalCase(md.compositeTypes[compIdx].typeName)
                          \o <<"Composite", "Schema">>, warns)
        ELSE IF builtin # Unmapped
          THEN Returned(builtin, warns)
        ELSE unmappedType(col, opts, warns)

mapBaseTypeToZod(col, md, opts, warns) ==
    LET udtName == elementUdtName(col)
        dataType == toLowerCase(col.dataType)
        enumIdx == find([i \in 1..Len(md.enums) |-> md.enums[i].enumName], udtName)
        compIdx == find([i \in 1..Len(md.compositeTypes) |-> md.compositeTypes[i].typeName], udtName)
        rangeIdx == find([i \in 1..Len(md.rangeTypes) |-> md.rangeTypes[i].rangeName], udtName)
        typeToCheck == IF dataType = <<"a","r","r","a","y">> THEN udtName ELSE dataType
        builtin == builtinType(typeToCheck, col)
    IN  IF hasCustomTypeMapping(opts, udtName)
          THEN Returned(opts.customTypeMappings[udtName], warns)
        ELSE IF enumIdx # 0
          THEN Returned(toPascalCase(md.enums[enumIdx].schemaName)
                          \o toPascalCase(md.enums[enumIdx].enumName) \o <<"Schema">>, warns)
        ELSE IF compIdx # 0
          THEN Returned(toPascalCase(md.compositeTypes[compIdx].schemaName)
                          \o toPascalCase(md.compositeTypes[compIdx].typeName)
                          \o <<"Composite", "Schema">>, warns)
        ELSE IF rangeIdx # 0
          THEN Returned(toPascalCase(md.rangeTypes[rangeIdx].schemaName)
                          \o toPascalCase(md.rangeTypes[rangeIdx].rangeName) \o <<"Schema">>, warns)
        ELSE IF builtin # Unmapped
          THEN Returned(builtin, warns)
        ELSE unmappedType(col, opts, warns)

\* withNullable that ignores column.isNullable
withNullable_always(col, schema) == schema \o <<".nullable()">>

\* `${schema}.nullable()` when the column is nullable
withNullable(col, schema) ==
    IF col.isNullable THEN schema \o <<".nullable()">> ELSE schema

\* arrayLayers whose loop runs once more (i = 0)
RECURSIVE arrayLayers_extra(_, _)
arrayLayers_extra(schema, passes) ==
    IF passes < 0 THEN schema
    ELSE arrayLayers_extra(<<"z.array(">> \o schema \o <<")">>, passes - 1)

\* the array wrapping of mapColumnToZod: one more z.array( ) per pass of the
\* loop for (i = 1; i < arrayDimensions; i++)
RECURSIVE arrayLayers(_, _)
arrayLayers(schema, passes) ==
    IF passes <= 0 THEN schema
    ELSE arrayLayers(<<"z.array(">> \o schema \o <<")">>, passes - 1)

\* mapColumnToZod that handles arrays before domains
mapColumnToZod_arrayFirst(col, md, opts, warns) ==
    LET domIdx == IF TruthyStr(col.domainName)
                  THEN find([i \in 1..Len(md.domains) |-> md.domains[i].domainName], col.domainName)
                  ELSE 0
        wrapped(base) ==
            IF col.isArray
              THEN IF base.threw THEN base
                   ELSE Returned(withNullable(col,
                            arrayLayers(<<"z.array(">> \o base.value \o <<")">>,
                                        IF col.arrayDimensions > 1 THEN col.arrayDimensions - 1 ELSE 0)),
                            base.warnings)
            ELSE IF domIdx # 0
              THEN Returned(withNullable(col, toPascalCase(md.domains[domIdx].schemaName)
                                                \o toPascalCase(md.domains[domIdx].domainName)
                                                \o <<"Schema">>), warns)
            ELSE IF base.threw
              THEN base
            ELSE Returned(withNullable(col, base.value), base.warnings)
    IN  wrapped(mapBaseTypeToZod(col, md, opts, warns))

\* mapColumnToZod that takes the nullability of a domain reference from the domain
mapColumnToZod_domainNullable(col, md, opts, warns) ==
    LET domIdx == IF TruthyStr(col.domainName)
                  THEN find([i \in 1..Len(md.domains) |-> md.domains[i].domainName], col.domainName)
                  ELSE 0
        wrapped(base) ==
            IF base.threw
              THEN base
            ELSE IF col.isArray
              THEN Returned(withNullable(col,
                       arrayLayers(<<"z.array(">> \o base.value \o <<")">>,
                                   IF col.arrayDimensions > 1 THEN col.arrayDimensions - 1 ELSE 0)),
                       base.warnings)
            ELSE Returned(withNullable(col, base.value), base.warnings)
    IN  IF domIdx # 0
          THEN Returned(withNullable(md.domains[domIdx],
                                     toPascalCase(md.domains[domIdx].schemaName)
                                       \o toPascalCase(md.domains[domIdx].domainName)
                                       \o <<"Schema">>), warns)
        ELSE wrapped(mapBaseTypeToZod(col, md, opts, warns))

mapColumnToZod(col, md, opts, warns) ==
    LET domIdx == IF TruthyStr(col.domainName)
                  THEN find([i \in 1..Len(md.domains) |-> md.domains[i].domainName], col.domainName)
                  ELSE 0
        wrapped(base) ==
            IF base.threw
              THEN base
            ELSE IF col.isArray
              THEN Returned(withNullable(col,
                       arrayLayers(<<"z.array(">> \o base.value \o <<")">>,
                                   IF col.arrayDimensions > 1 THEN col.arrayDimensions - 1 ELSE 0)),
                       base.warnings)
            ELSE Returned(withNullable(col, base.value), base.warnings)
    IN  IF domIdx # 0
          THEN Returned(withNullable(col, toPascalCase(md.domains[domIdx].schemaName)
                                            \o toPascalCase(md.domains[domIdx].domainName)
                                            \o <<"Schema">>), warns)
        ELSE wrapped(mapBaseTypeToZod(col, md, opts, warns))

-----------------------------------------------------------------------------
(* Regular expressions of applyCheckConstraints.  A pattern is a sequence   *)
(* of elements: a literal text, \s*, an optional character, or a capture    *)
(* group ([class]+).  In each pattern of the code the character after a     *)
(* repetition is outside the repeated class, so greedy matching never       *)
(* backtracks into a repetition.                                            *)

WhiteSpace == {" ", "\t", "\n"}
Digits == <<"0","1","2","3","4","5","6","7","8","9">>
DigitSet == {Digits[i] : i \in 1..10}

Lit(s) == [k |-> "lit", s |-> s]
Ws == [k |-> "ws"]
Opt(c) == [k |-> "opt", c |-> c]
\* ([...]+) for a class, ([^...]+) when neg
Plus(set, neg) == [k |-> "plus", set |-> set, neg |-> neg]

NoMatch == [ok |-> FALSE, caps |-> <<>>]

\* end of the longest run of characters from position pos on that satisfy
\* the class (pos - 1 when there is none)
RECURSIVE runEnd(_, _, _, _)
runEnd(text, pos, set, neg) ==
    IF pos <= Len(text) /\ ((text[pos] \in set) # neg)
    THEN runEnd(text, pos + 1, set, neg)
    ELSE pos - 1

\* match of the elements k.. of pat against text from position pos on
RECURSIVE matchAt(_, _, _, _, _)
matchAt(text, pos, pat, k, caps) ==
    IF k > Len(pat) THEN [ok |-> TRUE, caps |-> caps]
    ELSE LET e == pat[k] IN
      CASE e.k = "lit" ->
             IF pos + Len(e.s) - 1 <= Len(text) /\ SubSeq(text, pos, pos + Len(e.s) - 1) = e.s
             THEN matchAt(text, pos + Len(e.s), pat, k + 1, caps)
             ELSE NoMatch
        [] e.k = "ws" ->
             matchAt(text, runEnd(text, pos, WhiteSpace, FALSE) + 1, pat, k + 1, caps)
        [] e.k = "opt" ->
             IF pos <= Len(text) /\ text[pos] = e.c
             THEN matchAt(text, pos + 1, pat, k + 1, caps)
             ELSE matchAt(text, pos, pat, k + 1, caps)
        [] e.k = "plus" ->
             LET last == runEnd(text, pos, e.set, e.neg)
             IN  IF last < pos THEN NoMatch
                 ELSE matchAt(text, last + 1, pat, k + 1, Append(caps, SubSeq(text, pos, last)))

\* String.prototype.match(new RegExp(...)) without the g flag: the match at
\* the leftmost position where the pattern matches
match(text, pat) ==
    LET starts == {i \in 1..(Len(text) + 1) : matchAt(text, i, pat, 1, <<>>).ok}
    IN  IF starts = {} THEN NoMatch
        ELSE matchAt(text, CHOOSE i \in starts : \A j \in starts : i <= j, pat, 1, <<>>)

\* String.prototype.trim
RECURSIVE trim(_)
trim(s) ==
    IF Len(s) > 0 /\ s[1] \in WhiteSpace THEN trim(Tail(s))
    ELSE IF Len(s) > 0 /\ s[Len(s)] \in WhiteSpace THEN trim(SubSeq(s, 1, Len(s) - 1))
    ELSE s

\* String.prototype.replace(/'/g, '')
stripQuotes(s) == SelectSeq(s, LAMBDA c : c # "'")

\* parseFloat of a run of digits
RECURSIVE parseDigits(_)
parseDigits(s) ==
    IF Len(s) = 0 THEN 0
    ELSE 10 * parseDigits(SubSeq(s, 1, Len(s) - 1))
           + (CHOOSE d \in 0..9 : Digits[d + 1] = s[Len(s)])

\* `${parseFloat(text) + Number.EPSILON}`: IEEE-754 double addition of 2^-52
\* and the shortest decimal that round-trips.  Texts with a "." keep the sum
\* symbolic.
plusEpsilon(text) ==
    IF \E i \in 1..Len(text) : text[i] = "."
    THEN <<"parseFloat(">> \o text \o <<")+EPSILON">>
    ELSE LET n == parseDigits(text)
         IN  IF n = 0 THEN <<"2.220446049250313e-16">>
             ELSE IF n = 1 THEN <<"1.0000000000000002">>
             ELSE <<ToString(n)>>

\* `${parseFloat(text) - Number.EPSILON}`
minusEpsilon(text) ==
    IF \E i \in 1..Len(text) : text[i] = "."
    THEN <<"parseFloat(">> \o text \o <<")-EPSILON">>
    ELSE LET n == parseDigits(text)
         IN  IF n = 0 THEN <<"-2.220446049250313e-16">>
             ELSE IF n = 1 THEN <<"0.9999999999999998">>
             ELSE IF n = 2 THEN <<"1.9999999999999998">>
             ELSE <<ToString(n)>>

\* the column name spliced into the source text of a RegExp
columnPattern(cn) == Lit(cn)

NumClass == DigitSet \cup {"."}

\* gePattern with the operator spelled =>
gePattern_swapped(cn) == <<columnPattern(cn), Ws, Lit(<<"=", ">">>), Ws, Plus(NumClass, FALSE)>>

gePattern(cn) == <<columnPattern(cn), Ws, Lit(<<">", "=">>), Ws, Plus(NumClass, FALSE)>>
gtPattern(cn) == <<columnPattern(cn), Ws, Lit(<<">">>), Ws, Plus(NumClass, FALSE)>>
lePattern(cn) == <<columnPattern(cn), Ws, Lit(<<"<", "=">>), Ws, Plus(NumClass, FALSE)>>
ltPattern(cn) == <<columnPattern(cn), Ws, Lit(<<"<">>), Ws, Plus(NumClass, FALSE)>>
betweenPattern(cn) ==
    <<columnPattern(cn), Ws, Lit(<<"b","e","t","w","e","e","n">>), Ws, Plus(NumClass, FALSE),
      Ws, Lit(<<"a","n","d">>), Ws, Plus(NumClass, FALSE)>>
inPattern(cn) ==
    <<columnPattern(cn), Ws, Lit(<<"i","n">>), Ws, Lit(<<"(">>), Plus({")"}, TRUE), Lit(<<")">>)>>
anyArrayPattern(cn) ==
    <<Opt("("), columnPattern(cn), Ws, Lit(<<"=">>), Ws, Lit(<<"a","n","y">>), Ws,
      Lit(<<"(","a","r","r","a","y","[">>), Plus({"]"}, TRUE), Lit(<<"]">>)>>
regexPattern(cn) ==
    <<columnPattern(cn), Ws, Lit(<<"~">>), Ws, Lit(<<"'">>), Plus({"'"}, TRUE), Lit(<<"'">>)>>
lengthPattern(cn) ==
    <<Lit(<<"l","e","n","g","t","h","(">>), columnPattern(cn), Lit(<<")">>), Ws,
      Plus({">", "<", "="}, FALSE), Ws, Plus(DigitSet, FALSE)>>
\* /'([^']+)'/ applied to one element of the ARRAY[...] list
quotedPattern == <<Lit(<<"'">>), Plus({"'"}, TRUE), Lit(<<"'">>)>>

\* `z.enum([${values.map((v) => `'${v}'`).join(', ')}])`
enumOf(values) ==
    <<"z.enum([">>
      \o join([i \in 1..Len(values) |-> <<"'">> \o values[i] \o <<"'">>], <<", ">>)
      \o <<"])">>

\* values of the IN branch: split(',') then trim and quote removal
inValues(list) ==
    LET parts == split(list, ",")
    IN  [i \in 1..Len(parts) |-> stripQuotes(trim(parts[i]))]

\* values of the ANY (ARRAY[...]) branch: first quoted text of each element,
\* elements without one filtered out
anyArrayValues(list) ==
    LET parts == split(list, ",")
        ms == [i \in 1..Len(parts) |-> match(trim(parts[i]), quotedPattern)]
        kept == SelectSeq(ms, LAMBDA m : m.ok)
    IN  [i \in 1..Len(kept) |-> kept[i].caps[1]]

\* one pass of the for loop of applyCheckConstraints
applyConstraint(cn, schema, constraint) ==
    LET checkClause == toLowerCase(constraint.checkClause)
        geMatch == match(checkClause, gePattern(cn))
        gtMatch == match(checkClause, gtPattern(cn))
        leMatch == match(checkClause, lePattern(cn))
        ltMatch == match(checkClause, ltPattern(cn))
        betweenMatch == match(checkClause, betweenPattern(cn))
        inMatch == match(checkClause, inPattern(cn))
        anyArrayMatch == match(checkClause, anyArrayPattern(cn))
        regexMatch == match(checkClause, regexPattern(cn))
        lengthMatch == match(checkClause, lengthPattern(cn))
        number == includes(schema, "z.number()")
        bigint == includes(schema, "z.bigint()")
        string == includes(schema, "z.string()")
        anyValues == anyArrayValues(anyArrayMatch.caps[1])
    IN  IF geMatch.ok THEN
            IF number THEN replace(schema, "z.number()", <<"z.number()", ".min(">> \o geMatch.caps[1] \o <<")">>)
            ELSE IF bigint THEN replace(schema, "z.bigint()", <<"z.bigint()", ".min(">> \o geMatch.caps[1] \o <<"n)">>)
            ELSE schema
        ELSE IF gtMatch.ok THEN
            IF number THEN replace(schema, "z.number()", <<"z.number()", ".min(">> \o plusEpsilon(gtMatch.caps[1]) \o <<")">>)
            ELSE schema
        ELSE IF leMatch.ok THEN
            IF number THEN replace(schema, "z.number()", <<"z.number()", ".max(">> \o leMatch.caps[1] \o <<")">>)
            ELSE IF bigint THEN replace(schema, "z.bigint()", <<"z.bigint()", ".max(">> \o leMatch.caps[1] \o <<"n)">>)
            ELSE schema
        ELSE IF ltMatch.ok THEN
            IF number THEN replace(schema, "z.number()", <<"z.number()", ".max(">> \o minusEpsilon(ltMatch.caps[1]) \o <<")">>)
            ELSE schema
        ELSE IF betweenMatch.ok THEN
            IF number THEN replace(schema, "z.number()",
                               <<"z.number()", ".min(">> \o betweenMatch.caps[1] \o <<")", ".max(">>
                                   \o betweenMatch.caps[2] \o <<")">>)
            ELSE schema
        ELSE IF inMatch.ok THEN
            IF string THEN enumOf(inValues(inMatch.caps[1])) ELSE schema
        ELSE IF anyArrayMatch.ok /\ Len(anyValues) > 0 /\ string THEN
            enumOf(anyValues)
        ELSE IF regexMatch.ok THEN
            IF string THEN replace(schema, "z.string()", <<"z.string()", ".regex(/">> \o regexMatch.caps[1] \o <<"/)">>)
            ELSE schema
        ELSE IF lengthMatch.ok THEN
            IF string /\ lengthMatch.caps[1] \in {<<">", "=">>, <<">">>}
              THEN replace(schema, "z.string()", <<"z.string()", ".min(">> \o lengthMatch.caps[2] \o <<")">>)
            ELSE IF string /\ lengthMatch.caps[1] \in {<<"<", "=">>, <<"<">>}
              THEN replace(schema, "z.string()", <<"z.string()", ".max(">> \o lengthMatch.caps[2] \o <<")">>)
            ELSE schema
        ELSE schema \o <<" /* CHECK: ">> \o constraint.checkClause \o <<" */">>

\* nesting depth of the groups of a regular expression source after
\* character i, -1 once a ")" closes a group that was never opened
RECURSIVE groupDepth(_, _, _)
groupDepth(source, i, depth) ==
    IF depth < 0 \/ i > Len(source) THEN depth
    ELSE groupDepth(source, i + 1,
                    CASE source[i] = "(" -> depth + 1
                      [] source[i] = ")" -> depth - 1
                      [] OTHER -> depth)

\* new RegExp(`${columnName}...`) returns: the groups the column name opens
\* are closed (the rest of each pattern text is balanced).  The column names
\* of the runs hold no other character that is special in a regular expression.
regExpCompiles(cn) == groupDepth(cn, 1, 0) = 0

\* the SyntaxError new RegExp throws
regExpSyntaxError(cn) ==
    <<"SyntaxError: Invalid regular expression: /">> \o cn \o <<"\\s*>=\\s*([\\d.]+)/">>

\* applyCheckConstraints that applies the last clause only
applyCheckConstraints_lastOnly(cn, schema, cs) ==
    IF Len(cs) = 0 THEN Returned(schema, <<>>)
    ELSE IF ~regExpCompiles(cn) THEN Threw(regExpSyntaxError(cn), <<>>)
    ELSE Returned(applyConstraint(cn, schema, cs[Len(cs)]), <<>>)

\* the for loop of applyCheckConstraints from the clause Head(cs) on; the
\* first new RegExp of a pass throws when the column name does not compile
RECURSIVE applyCheckConstraints(_, _, _)
applyCheckConstraints(cn, schema, cs) ==
    IF Len(cs) = 0 THEN Returned(schema, <<>>)
    ELSE IF ~regExpCompiles(cn) THEN Threw(regExpSyntaxError(cn), <<>>)
    ELSE applyCheckConstraints(cn, applyConstraint(cn, schema, Head(cs)), Tail(cs))

-----------------------------------------------------------------------------
(* src/src/generator.ts *)

\* String.prototype.includes for a text of several characters
includesText(s, sub) ==
    \E i \in 1..(Len(s) - Len(sub) + 1) : SubSeq(s, i, i + Len(sub) - 1) = sub

\* `${fullName}` of the enum, range and domain generators
fullNameOf(schemaPrefix, name) ==
    IF TruthyStr(schemaPrefix) THEN toPascalCase(schemaPrefix) \o toPascalCase(name)
    ELSE toPascalCase(name)

\* the two closing lines every generator emits:
\* export const <schemaName> = <expr>;  export type <typeName> = z.infer<...>;
exportLines(schemaName, expr, typeName) ==
    <<"export const ">> \o schemaName \o <<" = ">> \o expr \o <<";\n">>
      \o <<"export type ">> \o typeName \o <<" = z.infer<typeof ">> \o schemaName \o <<">;\n">>

generateEnumSchema(enumName, values, opts, schemaPrefix) ==
    LET fullName == fullNameOf(schemaPrefix, enumName)
        schemaName == fullName \o <<"Schema">>
    IN  (IF opts.includeComments
         THEN <<"/** PostgreSQL enum: ">> \o enumName \o <<" */\n">> ELSE <<>>)
        \o exportLines(schemaName, enumOf(values), fullName)

mapSubtypeToZod(subtype) ==
    LET normalized == toLowerCase(subtype)
    IN  CASE normalized \in {<<"i","n","t","e","g","e","r">>, <<"i","n","t">>, <<"i","n","t","4">>} ->
               <<"z.number()", ".int()">>
          [] normalized \in {<<"b","i","g","i","n","t">>, <<"i","n","t","8">>} ->
               <<"z.bigint()">>
          [] normalized \in {<<"n","u","m","e","r","i","c">>, <<"d","e","c","i","m","a","l">>} ->
               <<"z.number()">>
          [] normalized \in {<<"d","a","t","e">>} ->
               <<"z.date()">>
          [] normalized \in {<<"t","i","m","e","s","t","a","m","p">>,
                             <<"t","i","m","e","s","t","a","m","p"," ","w","i","t","h","o","u","t"," ","t","i","m","e"," ","z","o","n","e">>,
                             <<"t","i","m","e","s","t","a","m","p"," ","w","i","t","h"," ","t","i","m","e"," ","z","o","n","e">>,
                             <<"t","i","m","e","s","t","a","m","p","t","z">>} ->
               <<"z.date()">>
          [] OTHER -> <<"z.unknown()">>

generateRangeSchema(rangeName, subtype, opts, schemaPrefix) ==
    LET fullName == fullNameOf(schemaPrefix, rangeName)
        schemaName == fullName \o <<"Schema">>
        subtypeSchema == mapSubtypeToZod(subtype)
    IN  (IF opts.includeComments
         THEN <<"/** PostgreSQL range type: ">> \o rangeName \o <<"<">> \o subtype \o <<"> */\n">>
         ELSE <<>>)
        \o exportLines(schemaName,
                       <<"z.tuple([">> \o subtypeSchema \o <<".nullable()", ", ">>
                           \o subtypeSchema \o <<".nullable()", "])">>,
                       fullName)

\* options.useCamelCase ? toCamelCase(name) : name
fieldNameOf(opts, name) == IF opts.useCamelCase THEN toCamelCase(name) ELSE name

\* the mock column generateCompositeTypeSchema builds for an attribute
compositeMockColumn(attr) ==
    [columnName |-> attr.attributeName, dataType |-> attr.dataType, isNullable |-> TRUE,
     columnDefault |-> nullStr, characterMaximumLength |-> null, numericPrecision |-> null,
     numericScale |-> null, udtName |-> attr.dataType, domainName |-> nullStr,
     arrayDimensions |-> 0, isArray |-> FALSE]

\* the for loop over compositeType.attributes, from attribute i on
RECURSIVE compositeFields(_, _, _, _, _, _)
compositeFields(attrs, i, md, opts, warns, code) ==
    IF i > Len(attrs) THEN Returned(code, warns)
    ELSE LET attr == attrs[i]
             field(zod) ==
                 IF zod.threw THEN zod
                 ELSE compositeFields(attrs, i + 1, md, opts, zod.warnings,
                          code \o (IF opts.includeComments
                                   THEN <<"  /** ">> \o attr.dataType \o <<" */\n">> ELSE <<>>)
                               \o <<"  ">> \o fieldNameOf(opts, attr.attributeName) \o <<": ">>
                               \o zod.value \o <<",\n">>)
         IN  field(mapColumnToZod(compositeMockColumn(attr), md, opts, warns))

generateCompositeTypeSchema(compositeType, md, opts, warns) ==
    LET fullName == toPascalCase(compositeType.schemaName) \o toPascalCase(compositeType.typeName)
                      \o <<"Composite">>
        schemaName == fullName \o <<"Schema">>
        head == (IF opts.includeComments
                 THEN <<"/** PostgreSQL composite type: ">> \o compositeType.typeName \o <<" */\n">>
                 ELSE <<>>)
                \o <<"export const ">> \o schemaName \o <<" = ">> \o <<"z.object({\n">>
        closed(fields) ==
            IF fields.threw THEN fields
            ELSE Returned(fields.value \o <<"});\n">>
                            \o <<"export type ">> \o fullName \o <<" = z.infer<typeof ">>
                            \o schemaName \o <<">;\n">>,
                          fields.warnings)
    IN  closed(compositeFields(compositeType.attributes, 1, md, opts, warns, head))

\* the mock column generateDomainSchema builds for the domain's base type
domainMockColumn(domain) ==
    [columnName |-> domain.domainName, dataType |-> domain.dataType,
     isNullable |-> domain.isNullable, columnDefault |-> domain.domainDefault,
     characterMaximumLength |-> domain.characterMaximumLength,
     numericPrecision |-> domain.numericPrecision, numericScale |-> domain.numericScale,
     udtName |-> domain.dataType, domainName |-> nullStr,
     arrayDimensions |-> 0, isArray |-> FALSE]

\* the zodType local of generateDomainSchema once the check constraints are applied
domainZodType(domain, md, opts, warns) ==
    LET constrained(zod) ==
            IF zod.threw THEN zod
            ELSE IF Len(domain.checkConstraints) > 0
              THEN [applyCheckConstraints(domain.domainName, zod.value, domain.checkConstraints)
                      EXCEPT !.warnings = zod.warnings]
            ELSE zod
    IN  constrained(mapColumnToZod(domainMockColumn(domain), md, opts, warns))

generateDomainSchema(domain, md, opts, warns) ==
    LET fullName == toPascalCase(domain.schemaName) \o toPascalCase(domain.domainName)
        schemaName == fullName \o <<"Schema">>
        exported(zod) ==
            IF zod.threw THEN zod
            ELSE Returned((IF opts.includeComments
                           THEN <<"/** PostgreSQL domain: ">> \o domain.domainName \o <<" (base: ">>
                                  \o domain.dataType \o <<") */\n">>
                           ELSE <<>>)
                          \o exportLines(schemaName, zod.value, fullName),
                          zod.warnings)
    IN  exported(domainZodType(domain, md, opts, warns))

\* table.checkConstraints.filter((c) => c.columnName === column.columnName)
columnConstraintsOf(table, col) ==
    SelectSeq(table.checkConstraints, LAMBDA c : c.columnName = col.columnName)

\* zodType of a table column: mapColumnToZod, then the column's check constraints
columnZodType(table, col, md, opts, warns) ==
    LET cs == columnConstraintsOf(table, col)
        constrained(zod) ==
            IF zod.threw THEN zod
            ELSE IF Len(cs) > 0
              THEN [applyCheckConstraints(col.columnName, zod.value, cs)
                      EXCEPT !.warnings = zod.warnings]
            ELSE zod
    IN  constrained(mapColumnToZod(col, md, opts, warns))

\* the first for loop of generateTableSchema (read schema), from column i on
RECURSIVE readFields(_, _, _, _, _, _)
readFields(table, i, md, opts, warns, code) ==
    IF i > Len(table.columns) THEN Returned(code, warns)
    ELSE LET col == table.columns[i]
             commentParts == <<col.dataType>>
                 \o (IF TruthyStr(col.columnDefault)
                     THEN <<<<"default: ">> \o col.columnDefault>> ELSE <<>>)
             field(zod) ==
                 IF zod.threw THEN zod
                 ELSE readFields(table, i + 1, md, opts, zod.warnings,
                          code \o (IF opts.includeComments
                                   THEN <<"  /** ">> \o join(commentParts, <<", ">>) \o <<" */\n">>
                                   ELSE <<>>)
                               \o <<"  ">> \o fieldNameOf(opts, col.columnName) \o <<": ">>
                               \o zod.value \o <<",\n">>)
         IN  field(columnZodType(table, col, md, opts, warns))

\* column.columnDefault?.includes('nextval') ?? false
isSerial(col) ==
    col.columnDefault # nullStr
      /\ includesText(col.columnDefault, <<"n","e","x","t","v","a","l">>)

\* isAutoGenerated that also holds for every nullable column
isAutoGenerated_nullable(col) ==
    col.isNullable \/ isSerial(col)

\* isSerial || column.columnDefault?.includes('gen_random_uuid()') || false
isAutoGenerated(col) ==
    \/ isSerial(col)
    \/ /\ col.columnDefault # nullStr
       /\ includesText(col.columnDefault,
              <<"g","e","n","_","r","a","n","d","o","m","_","u","u","i","d","(",")">>)

\* the second for loop of generateTableSchema (optionalFields), from column i on;
\* the value is the list of {fieldName, zodType, comment} collected
RECURSIVE optionalFieldsOf(_, _, _, _, _, _)
optionalFieldsOf(table, i, md, opts, warns, fields) ==
    IF i > Len(table.columns) THEN Returned(fields, warns)
    ELSE LET col == table.columns[i]
             hasDefault == col.columnDefault # nullStr
             commentParts == <<col.dataType>>
                 \o (IF hasDefault THEN <<<<"default: ">> \o col.columnDefault>> ELSE <<>>)
                 \o (IF isSerial(col) THEN <<<<"auto-generated">>>> ELSE <<>>)
             field(zod) ==
                 IF zod.threw THEN zod
                 ELSE optionalFieldsOf(table, i + 1, md, opts, zod.warnings,
                          Append(fields,
                                 [fieldName |-> fieldNameOf(opts, col.columnName),
                                  zodType |-> zod.value \o <<".optional()">>,
                                  comment |-> IF opts.includeComments
                                              THEN join(commentParts, <<", ">>) ELSE <<>>]))
         IN  IF ~(isAutoGenerated(col) \/ hasDefault)
               THEN optionalFieldsOf(table, i + 1, md, opts, warns, fields)
             ELSE field(columnZodType(table, col, md, opts, warns))

\* the lines of the .extend({ ... }) body
RECURSIVE extendLines(_)
extendLines(fields) ==
    IF Len(fields) = 0 THEN <<>>
    ELSE (IF fields[1].comment # <<>>
          THEN <<"  /** ">> \o fields[1].comment \o <<" */\n">> ELSE <<>>)
         \o <<"  ">> \o fields[1].fieldName \o <<": ">> \o fields[1].zodType \o <<",\n">>
         \o extendLines(Tail(fields))

generateTableSchema(table, md, opts, warns) ==
    LET schemaName == toPascalCase(table.schemaName) \o toPascalCase(table.tableName)
        readSchemaName == schemaName \o <<"Schema">>
        insertSchemaName == schemaName \o <<"InsertSchema">>
        updateSchemaName == schemaName \o <<"UpdateSchema">>
        head == (IF opts.includeComments
                 THEN <<"/** Table: ">> \o table.schemaName \o <<".">> \o table.tableName \o <<" */\n">>
                 ELSE <<>>)
                \o <<"export const ">> \o readSchemaName \o <<" = ">> \o <<"z.object({\n">>
        readCodeOf(read) ==
            read.value \o <<"});\n">>
              \o <<"export type ">> \o schemaName \o <<" = z.infer<typeof ">>
              \o readSchemaName \o <<">;\n">>
        insertCodeOf(optionalFields) ==
            (IF opts.includeComments
             THEN <<"/** Insert schema for ">> \o table.tableName \o <<" */\n">> ELSE <<>>)
            \o (IF Len(optionalFields) = 0
                THEN <<"export const ">> \o insertSchemaName \o <<" = ">> \o readSchemaName \o <<";\n">>
                ELSE <<"export const ">> \o insertSchemaName \o <<" = ">> \o readSchemaName
                       \o <<".extend({\n">> \o extendLines(optionalFields) \o <<"});\n">>)
            \o <<"export type ">> \o schemaName \o <<"Insert">> \o <<" = z.infer<typeof ">>
            \o insertSchemaName \o <<">;\n">>
        updateCode ==
            (IF opts.includeComments
             THEN <<"/** Update schema for ">> \o table.tableName \o <<" (all fields optional) */\n">>
             ELSE <<>>)
            \o <<"export const ">> \o updateSchemaName \o <<" = ">> \o readSchemaName
            \o <<".partial()", ";\n">>
            \o <<"export type ">> \o schemaName \o <<"Update">> \o <<" = z.infer<typeof ">>
            \o updateSchemaName \o <<">;\n">>
        withInput(readCode, insertCode, warns2) ==
            Returned([tableName |-> table.tableName, schemaName |-> table.schemaName,
                      readSchema |-> readCode, inputSchema |-> insertCode,
                      typeDefinitions |-> readCode \o <<"\n">> \o insertCode
                                            \o <<"\n">> \o updateCode],
                     warns2)
        afterOptional(readCode, optional) ==
            IF optional.threw THEN optional
            ELSE withInput(readCode, insertCodeOf(optional.value), optional.warnings)
        afterRead(readCode, warns1) ==
            IF ~opts.generateInputSchemas
              THEN Returned([tableName |-> table.tableName, schemaName |-> table.schemaName,
                             readSchema |-> readCode, inputSchema |-> nullStr,
                             typeDefinitions |-> readCode],
                            warns1)
            ELSE afterOptional(readCode, optionalFieldsOf(table, 1, md, opts, warns1, <<>>))
        generated(read) ==
            IF read.threw THEN read ELSE afterRead(readCodeOf(read), read.warnings)
    IN  generated(readFields(table, 1, md, opts, warns, head))

\* the comment block and the import line formatOutput starts the document with
\* (the warning sign in front of DO NOT EDIT is left out)
outputHeader ==
    <<"/**\n",
      " * ==========================================\n",
      " *     | GENERATED BY PG-TO-ZOD (TBP) |\n",
      " * ==========================================\n",
      " *\n",
      " * DO NOT EDIT THIS FILE MANUALLY!\n",
      " *\n",
      " * This file was automatically generated from\n",
      " * your PostgreSQL database schema.\n",
      " *\n",
      " * To regenerate, run:\n",
      " *   pg-to-zod --url <connection-url> -o <file>\n",
      " *\n",
      " * Any manual changes will be overwritten when\n",
      " * the code is regenerated.\n",
      " * ==========================================\n",
      " */\n\n",
      "import { z } from 'zod';\n\n">>

sectionRule == "// ============================================\n"

\* for (const x of list) output += x + '\n'
RECURSIVE outputLines(_)
outputLines(codes) ==
    IF Len(codes) = 0 THEN <<>>
    ELSE Head(codes) \o <<"\n">> \o outputLines(Tail(codes))

\* one of the sections Enums .. Tables: nothing for an empty list, else the
\* banner and the code of each entry
outputSection(title, codes) ==
    IF Len(codes) = 0 THEN <<>>
    ELSE <<sectionRule, title, sectionRule, "\n">> \o outputLines(codes)

\* the Warnings section
warningsSection(warns) ==
    IF Len(warns) = 0 THEN <<>>
    ELSE <<sectionRule, "// Warnings\n", sectionRule, "// The following warnings were generated:\n">>
           \o outputLines([i \in 1..Len(warns) |-> <<"// - ">> \o warns[i]])

formatOutput(res) ==
    outputHeader
      \o outputSection("// Enums\n", [i \in 1..Len(res.enums) |-> res.enums[i].code])
      \o outputSection("// Domains\n", [i \in 1..Len(res.domains) |-> res.domains[i].code])
      \o outputSection("// Range Types\n", [i \in 1..Len(res.ranges) |-> res.ranges[i].code])
      \o outputSection("// Composite Types\n",
                       [i \in 1..Len(res.compositeTypes) |-> res.compositeTypes[i].code])
      \o outputSection("// Tables\n", [i \in 1..Len(res.schemas) |-> res.schemas[i].typeDefinitions])
      \o warningsSection(res.warnings)

-----------------------------------------------------------------------------
(* Catalog entries and descriptors the runs are started from *)

\* largest arrayDimensions of a descriptor
MaxDims == 2

publicSchema == <<"p","u","b","l","i","c">>
appSchema == <<"m","y","_","a","p","p">>

\* an enum, a composite type and a range type that share the local name "mood"
enumMood ==
    [enumName |-> <<"m","o","o","d">>, enumValues |-> <<<<"o","k">>, <<"B","a","d">>>>,
     schemaName |-> appSchema]

\* the enum of the same local name in the namespace of the tables
enumMoodPublic ==
    [enumName |-> <<"m","o","o","d">>, enumValues |-> <<<<"u","p">>, <<"d","o","w","n">>>>,
     schemaName |-> publicSchema]

compositeMood ==
    [typeName |-> <<"m","o","o","d">>, schemaName |-> publicSchema,
     attributes |-> <<[attributeName |-> <<"s","t","r","e","e","t">>, dataType |-> <<"t","e","x","t">>, attributeNumber |-> 1],
                      [attributeName |-> <<"g","e","o","_","t","a","g">>, dataType |-> <<"h","s","t","o","r","e">>, attributeNumber |-> 2]>>]

rangeMood ==
    [rangeName |-> <<"m","o","o","d">>, subtype |-> <<"i","n","t","4">>, schemaName |-> publicSchema]

\* a range type over a subtype mapSubtypeToZod has no case for
rangeFloat ==
    [rangeName |-> <<"f","l","o","a","t","r","a","n","g","e">>, subtype |-> <<"f","l","o","a","t","8">>,
     schemaName |-> publicSchema]

\* check clauses of domains, as pg_get_constraintdef prints them
domainClauseRegex == <<"C","H","E","C","K"," ","(","(","V","A","L","U","E"," ","~"," ","'","^","[","A","-","Z","]","+","@","x","$","'",":",":","t","e","x","t",")",")">>
domainClauseBound == <<"C","H","E","C","K"," ","(","(","V","A","L","U","E"," ",">"," ","0",")",")">>

domainEmail(isNullable) ==
    [domainName |-> <<"e","m","a","i","l">>, dataType |-> <<"t","e","x","t">>, schemaName |-> appSchema,
     characterMaximumLength |-> null, numericPrecision |-> null, numericScale |-> null,
     isNullable |-> isNullable, domainDefault |-> nullStr,
     checkConstraints |-> <<[constraintName |-> <<"e","m","a","i","l","_","c","h","e","c","k">>,
                             checkClause |-> domainClauseRegex, columnName |-> nullStr]>>]

noMappings == [t \in {} |-> <<>>]

\* customTypeMappings of the caller; an entry with the empty string is falsy
someMappings ==
    [t \in {<<"m","o","o","d">>, <<"h","s","t","o","r","e">>, <<"i","n","t","4">>} |->
        IF t = <<"i","n","t","4">> THEN <<>> ELSE <<"z.string()", ".min(1)">>]

DataTypes ==
    {<<"A","R","R","A","Y">>, <<"U","S","E","R","-","D","E","F","I","N","E","D">>, <<"i","n","t","e","g","e","r">>, <<"c","h","a","r","a","c","t","e","r"," ","v","a","r","y","i","n","g">>}

UdtNames ==
    {<<"i","n","t","4">>, <<"_","i","n","t","4">>, <<"m","o","o","d">>, <<"_","m","o","o","d">>, <<"_","_","m","o","o","d">>, <<"h","s","t","o","r","e">>, <<"_","h","s","t","o","r","e">>}

DomainNames == {nullStr, <<"e","m","a","i","l">>, <<"g","h","o","s","t">>}

\* characterMaximumLength, numericPrecision, numericScale of a descriptor
Sizes(dataType) ==
    IF dataType = <<"c","h","a","r","a","c","t","e","r"," ","v","a","r","y","i","n","g">>
    THEN {<<null, null, null>>, <<20, null, null>>}
    ELSE {<<null, null, null>>}

\* descriptors handed to mapColumnToZod
Descriptors ==
    UNION {{[columnName |-> <<"q","t","y">>, dataType |-> dt, isNullable |-> nl, columnDefault |-> nullStr,
             characterMaximumLength |-> sz[1], numericPrecision |-> sz[2], numericScale |-> sz[3],
             udtName |-> udt, domainName |-> dom, arrayDimensions |-> dims, isArray |-> arr] :
               nl \in BOOLEAN, sz \in Sizes(dt), udt \in UdtNames, dom \in DomainNames,
               dims \in 0..MaxDims, arr \in BOOLEAN} : dt \in DataTypes}

\* catalogs a descriptor is resolved against
ResolveCatalogs ==
    [tables : {<<>>},
     enums : {<<>>, <<enumMood>>},
     compositeTypes : {<<>>, <<compositeMood>>},
     rangeTypes : {<<>>, <<rangeMood>>},
     domains : {<<>>, <<domainEmail(FALSE)>>, <<domainEmail(TRUE)>>}]

ResolveOptions ==
    [strictMode : BOOLEAN, customTypeMappings : {noMappings, someMappings},
     includeCompositeTypes : {TRUE}, generateInputSchemas : {TRUE},
     includeComments : {FALSE}, useCamelCase : {FALSE}]

-----------------------------------------------------------------------------
(* One call of mapColumnToZod *)

InitResolve ==
    /\ metadata \in ResolveCatalogs
    /\ options \in ResolveOptions
    /\ column \in Descriptors
    /\ columnName = <<>> /\ baseSchema = <<>> /\ constraints = <<>>
    /\ warnings = <<>>
    /\ result = NoResult /\ error = NoError
    /\ pc = "call"
    /\ enums = <<>> /\ ranges = <<>> /\ compositeTypes = <<>> /\ domains = <<>> /\ schemas = <<>>
    /\ output = <<>>

MapColumn ==
    /\ pc = "call"
    /\ \E r \in {mapColumnToZod(column, metadata, options, warnings)} :
           /\ result' = r.value
           /\ warnings' = r.warnings
           /\ error' = r.error
           /\ pc' = IF r.threw THEN "thrown" ELSE "done"
    /\ UNCHANGED <<output, metadata, options, column, columnName, baseSchema, constraints,
                   enums, ranges, compositeTypes, domains, schemas>>

NextResolve == MapColumn

SpecResolve == InitResolve /\ [][NextResolve]_vars

-----------------------------------------------------------------------------
(* One call of applyCheckConstraints *)

\* longest constraints list handed to applyCheckConstraints
MaxClauses == 2

\* check clause texts as the catalog stores them
ClauseTexts ==
    {<<"q","t","y"," ",">","="," ","0"," ","A","N","D"," ","q","t","y"," ","<","="," ","5">>,
     <<"q","t","y"," ",">","="," ","1","8">>,
     <<"q","t","y"," ",">"," ","0">>,
     <<"q","t","y"," ","<","="," ","5">>,
     <<"q","t","y"," ","B","E","T","W","E","E","N"," ","1"," ","A","N","D"," ","5">>,
     <<"q","t","y"," ","I","N"," ","(","'","a","'",","," ","'","B","'",")">>,
     <<"q","t","y"," ","="," ","A","N","Y"," ","(","A","R","R","A","Y","[","'","D","r","a","f","t","'",","," ","'","b","'","]",")">>,
     <<"(","q","t","y"," ","="," ","A","N","Y"," ","(","A","R","R","A","Y","[","'","a","'",":",":","t","e","x","t",","," ","'","b","'",":",":","t","e","x","t","]",")",")">>,
     <<"q","t","y"," ","~"," ","'","^","[","A","-","Z","]","x","$","'">>,
     <<"l","e","n","g","t","h","(","q","t","y",")"," ",">","="," ","3">>,
     <<"q","t","y"," ","<",">"," ","0">>,
     <<"Q","t","y"," ",">","="," ","7">>,
     <<"q","t","y"," ","<","="," ","9">>,
     <<"q","t","y"," ",">"," ","1"," ","A","N","D"," ","q","t","y"," ",">","="," ","3">>,
     <<"q","t","y"," ","~"," ","'","a","'"," ","A","N","D"," ","l","e","n","g","t","h","(","q","t","y",")"," ",">","="," ","3">>,
     <<"q","t","y"," ","="," ","A","N","Y"," ","(","A","R","R","A","Y","[","1","]",")"," ","A","N","D"," ","q","t","y"," ","~"," ","'","x","'">>}

ColumnNames == {<<"q","t","y">>, <<"Q","t","y">>, <<"n","(">>}

\* validator expressions applyCheckConstraints starts from
BaseSchemas ==
    {<<"z.number()", ".int()">>, <<"z.bigint()">>, <<"z.string()">>,
     <<"z.string()", ".max(", "20", ")">>, <<"z.string()", ".nullable()">>, <<"z.boolean()">>}

CheckConstraint(cn, text) ==
    [constraintName |-> cn \o <<"_","c","h","e","c","k">>, checkClause |-> text, columnName |-> cn]

\* the lists of at most n clause texts
RECURSIVE ClauseLists(_)
ClauseLists(n) ==
    IF n = 0 THEN {<<>>}
    ELSE ClauseLists(n - 1)
           \cup {Append(l, t) : l \in {x \in ClauseLists(n - 1) : Len(x) = n - 1}, t \in ClauseTexts}

InitCheck ==
    /\ metadata = <<>> /\ options = <<>> /\ column = <<>>
    /\ columnName \in ColumnNames
    /\ baseSchema \in BaseSchemas
    /\ \E l \in ClauseLists(MaxClauses) :
         constraints = [i \in 1..Len(l) |-> CheckConstraint(columnName, l[i])]
    /\ warnings = <<>>
    /\ result = NoResult /\ error = NoError
    /\ pc = "call"
    /\ enums = <<>> /\ ranges = <<>> /\ compositeTypes = <<>> /\ domains = <<>> /\ schemas = <<>>
    /\ output = <<>>

ApplyCheckConstraints ==
    /\ pc = "call"
    /\ \E r \in {applyCheckConstraints(columnName, baseSchema, constraints)} :
           /\ result' = r.value
           /\ error' = r.error
           /\ pc' = IF r.threw THEN "thrown" ELSE "done"
    /\ UNCHANGED <<output, metadata, options, column, columnName, baseSchema, constraints,
                   warnings, enums, ranges, compositeTypes, domains, schemas>>

NextCheck == ApplyCheckConstraints

SpecCheck == InitCheck /\ [][NextCheck]_vars

-----------------------------------------------------------------------------
(* One run of generateSchemas *)

\* metadata.compositeTypes.map(...) from entry i on, threading the warnings list
RECURSIVE compositeSchemas(_, _, _, _, _)
compositeSchemas(md, i, opts, warns, acc) ==
    IF i > Len(md.compositeTypes) THEN Returned(acc, warns)
    ELSE LET t == md.compositeTypes[i]
             mapped(code) ==
                 IF code.threw THEN code
                 ELSE compositeSchemas(md, i + 1, opts, code.warnings,
                          Append(acc, [name |-> toPascalCase(t.schemaName) \o toPascalCase(t.typeName)
                                                  \o <<"Composite">>,
                                       code |-> code.value]))
         IN  mapped(generateCompositeTypeSchema(t, md, opts, warns))

\* metadata.domains.map(...) from entry i on, threading the warnings list
RECURSIVE domainSchemas(_, _, _, _, _)
domainSchemas(md, i, opts, warns, acc) ==
    IF i > Len(md.domains) THEN Returned(acc, warns)
    ELSE LET d == md.domains[i]
             mapped(code) ==
                 IF code.threw THEN code
                 ELSE domainSchemas(md, i + 1, opts, code.warnings,
                          Append(acc, [name |-> toPascalCase(d.schemaName) \o toPascalCase(d.domainName),
                                       code |-> code.value]))
         IN  mapped(generateDomainSchema(d, md, opts, warns))

\* largest number of tables in a catalog
MaxTables == 2

domainPosint ==
    [domainName |-> <<"p","o","s","_","i","n","t">>, dataType |-> <<"i","n","t","e","g","e","r">>, schemaName |-> publicSchema,
     characterMaximumLength |-> null, numericPrecision |-> null, numericScale |-> null,
     isNullable |-> FALSE, domainDefault |-> nullStr,
     checkConstraints |-> <<[constraintName |-> <<"p","o","s","_","i","n","t","_","c","h","e","c","k">>,
                             checkClause |-> domainClauseBound, columnName |-> nullStr]>>]

\* a domain whose base type is the custom type mood
domainRating ==
    [domainName |-> <<"r","a","t","i","n","g">>, dataType |-> <<"m","o","o","d">>, schemaName |-> publicSchema,
     characterMaximumLength |-> null, numericPrecision |-> null, numericScale |-> null,
     isNullable |-> TRUE, domainDefault |-> nullStr, checkConstraints |-> <<>>]

Column(name, dataType, udtName, isNullable, columnDefault, domainName, isArray) ==
    [columnName |-> name, dataType |-> dataType, isNullable |-> isNullable,
     columnDefault |-> columnDefault, characterMaximumLength |-> null,
     numericPrecision |-> null, numericScale |-> null, udtName |-> udtName,
     domainName |-> domainName, arrayDimensions |-> 0, isArray |-> isArray]

colId == Column(<<"i","d">>, <<"i","n","t","e","g","e","r">>, <<"i","n","t","4">>, FALSE,
                <<"n","e","x","t","v","a","l","(","'","s","'",")">>, nullStr, FALSE)
colQty == Column(<<"q","t","y">>, <<"i","n","t","e","g","e","r">>, <<"i","n","t","4">>, TRUE, nullStr, nullStr, FALSE)
colCode == Column(<<"c","o","d","e">>, <<"t","e","x","t">>, <<"t","e","x","t">>, FALSE, <<"'","x","'">>, nullStr, FALSE)
colGeo(columnDefault) ==
    Column(<<"g","e","o","_","t","a","g">>, <<"U","S","E","R","-","D","E","F","I","N","E","D">>, <<"h","s","t","o","r","e">>, TRUE, columnDefault, nullStr, FALSE)
colContact == Column(<<"c","o","n","t","a","c","t">>, <<"t","e","x","t">>, <<"t","e","x","t">>, TRUE, nullStr, <<"e","m","a","i","l">>, FALSE)
colTags == Column(<<"t","a","g","s">>, <<"A","R","R","A","Y">>, <<"_","m","o","o","d">>, TRUE, nullStr, nullStr, TRUE)

\* the column lists of the tables
ColumnLists ==
    {<<colId, colQty>>, <<colGeo(<<"'","'">>), colCode, colTags>>, <<colQty, colContact>>}

Table(name, columns) ==
    [tableName |-> name, schemaName |-> publicSchema, columns |-> columns,
     checkConstraints |->
         <<CheckConstraint(<<"q","t","y">>, <<"(","(","q","t","y"," ",">","="," ","0",")"," ","A","N","D"," ","(","q","t","y"," ","<","="," ","5",")",")">>),
           CheckConstraint(<<"c","o","d","e">>, <<"c","o","d","e"," ","~"," ","'","^","[","A","-","Z","]","x","$","'">>),
           CheckConstraint(<<"g","e","o","_","t","a","g">>, <<"g","e","o","_","t","a","g"," ","<",">"," ","'","'">>),
           CheckConstraint(<<"c","o","n","t","a","c","t">>, <<"(","c","o","n","t","a","c","t"," ","="," ","A","N","Y"," ","(","A","R","R","A","Y","[","'","a","'",":",":","t","e","x","t",","," ","'","b","'",":",":","t","e","x","t","]",")",")">>)>>,
     primaryKeys |-> IF \E i \in 1..Len(columns) : columns[i].columnName = <<"i","d">>
                     THEN <<<<"i","d">>>> ELSE <<>>,
     uniqueConstraints |-> <<>>]

TableNames == <<<<"o","r","d","e","r","s">>, <<"l","i","n","e","_","i","t","e","m","s">>, <<"u","s","e","r","s">>>>

\* the lists of exactly n tables, named in TableNames order
RECURSIVE TableLists(_)
TableLists(n) ==
    IF n = 0 THEN {<<>>}
    ELSE {Append(l, Table(TableNames[n], c)) : l \in TableLists(n - 1), c \in ColumnLists}

GenCatalogs ==
    [tables : UNION {TableLists(n) : n \in 0..MaxTables},
     enums : {<<>>, <<enumMood, enumMoodPublic>>},
     compositeTypes : {<<>>, <<compositeMood>>},
     rangeTypes : {<<>>, <<rangeMood, rangeFloat>>},
     domains : {<<>>, <<domainEmail(TRUE), domainPosint, domainRating>>}]

GenOptions ==
    {[strictMode |-> s, customTypeMappings |-> noMappings, includeCompositeTypes |-> c,
      generateInputSchemas |-> g, includeComments |-> d, useCamelCase |-> d] :
        s \in BOOLEAN, c \in BOOLEAN, g \in BOOLEAN, d \in BOOLEAN}

InitGen ==
    /\ metadata \in GenCatalogs
    /\ options \in GenOptions
    /\ column = <<>> /\ columnName = <<>> /\ baseSchema = <<>> /\ constraints = <<>>
    /\ warnings = <<>>
    /\ result = NoResult /\ error = NoError
    /\ pc = "enums"
    /\ enums = <<>> /\ ranges = <<>> /\ compositeTypes = <<>> /\ domains = <<>> /\ schemas = <<>>
    /\ output = <<>>

GenerateEnums ==
    /\ pc = "enums"
    /\ enums' = [i \in 1..Len(metadata.enums) |->
                   LET e == metadata.enums[i]
                   IN  [name |-> toPascalCase(e.schemaName) \o toPascalCase(e.enumName),
                        code |-> generateEnumSchema(e.enumName, e.enumValues, options, e.schemaName)]]
    /\ pc' = "ranges"
    /\ UNCHANGED <<output, metadata, options, column, columnName, baseSchema, constraints, warnings,
                   result, error, ranges, compositeTypes, domains, schemas>>

GenerateRanges ==
    /\ pc = "ranges"
    /\ ranges' = [i \in 1..Len(metadata.rangeTypes) |->
                    LET r == metadata.rangeTypes[i]
                    IN  [name |-> toPascalCase(r.schemaName) \o toPascalCase(r.rangeName),
                         code |-> generateRangeSchema(r.rangeName, r.subtype, options, r.schemaName)]]
    /\ pc' = "composites"
    /\ UNCHANGED <<output, metadata, options, column, columnName, baseSchema, constraints, warnings,
                   result, error, enums, compositeTypes, domains, schemas>>

GenerateCompositeTypes ==
    /\ pc = "composites"
    /\ \E r \in {IF options.includeCompositeTypes
                   THEN compositeSchemas(metadata, 1, options, warnings, <<>>)
                   ELSE Returned(<<>>, warnings)} :
           /\ compositeTypes' = IF r.threw THEN compositeTypes ELSE r.value
           /\ warnings' = r.warnings
           /\ error' = r.error
           /\ pc' = IF r.threw THEN "thrown" ELSE "domains"
    /\ UNCHANGED <<output, metadata, options, column, columnName, baseSchema, constraints,
                   result, enums, ranges, domains, schemas>>

GenerateDomains ==
    /\ pc = "domains"
    /\ \E r \in {domainSchemas(metadata, 1, options, warnings, <<>>)} :
           /\ domains' = IF r.threw THEN domains ELSE r.value
           /\ warnings' = r.warnings
           /\ error' = r.error
           /\ pc' = IF r.threw THEN "thrown" ELSE "tables"
    /\ UNCHANGED <<output, metadata, options, column, columnName, baseSchema, constraints,
                   result, enums, ranges, compositeTypes, schemas>>

\* one pass of for (const table of metadata.tables)
GenerateTable ==
    /\ pc = "tables"
    /\ Len(schemas) < Len(metadata.tables)
    /\ \E r \in {generateTableSchema(metadata.tables[Len(schemas) + 1], metadata, options, warnings)} :
           /\ schemas' = IF r.threw THEN schemas ELSE Append(schemas, r.value)
           /\ warnings' = r.warnings
           /\ error' = r.error
           /\ pc' = IF r.threw THEN "thrown" ELSE "tables"
    /\ UNCHANGED <<output, metadata, options, column, columnName, baseSchema, constraints,
                   result, enums, ranges, compositeTypes, domains>>

\* the return statement of generateSchemas
ReturnResult ==
    /\ pc = "tables"
    /\ Len(schemas) = Len(metadata.tables)
    /\ result' = [schemas |-> schemas, enums |-> enums, compositeTypes |-> compositeTypes,
                  domains |-> domains, ranges |-> ranges, warnings |-> warnings]
    /\ pc' = "done"
    /\ UNCHANGED <<output, metadata, options, column, columnName, baseSchema, constraints, warnings,
                   error, enums, ranges, compositeTypes, domains, schemas>>

\* formatOutput(result) of generateZodSchemasString
FormatOutput ==
    /\ pc = "done"
    /\ output' = formatOutput(result)
    /\ pc' = "formatted"
    /\ UNCHANGED <<metadata, options, column, columnName, baseSchema, constraints, warnings,
                   result, error, enums, ranges, compositeTypes, domains, schemas>>

Next ==
    \/ GenerateEnums
    \/ GenerateRanges
    \/ GenerateCompositeTypes
    \/ GenerateDomains
    \/ GenerateTable
    \/ ReturnResult
    \/ FormatOutput

Spec == InitGen /\ [][Next]_vars

-----------------------------------------------------------------------------
(* Reading generated text *)

\* a validator expression without its trailing .nullable()
stripNullable(r) ==
    IF Len(r) > 0 /\ r[Len(r)] = ".nullable()" THEN SubSeq(r, 1, Len(r) - 1) ELSE r

endsWithNullable(r) == Len(r) > 0 /\ r[Len(r)] = ".nullable()"

\* r is e inside exactly d z.array( ) layers
Layered(r, e, d) ==
    /\ Len(r) = Len(e) + 2 * d
    /\ \A i \in 1..d : r[i] = "z.array(" /\ r[Len(r) + 1 - i] = ")"
    /\ SubSeq(r, d + 1, d + Len(e)) = e

\* the identifier a generated definition declares: the text between the first
\* "export const " and the " = " that follows it
definedConstant(code) ==
    LET a == CHOOSE i \in 1..Len(code) :
                 code[i] = "export const " /\ \A j \in 1..(i-1) : code[j] # "export const "
        b == CHOOSE i \in (a+1)..Len(code) :
                 code[i] = " = " /\ \A j \in (a+1)..(i-1) : code[j] # " = "
    IN  SubSeq(code, a + 1, b - 1)

\* s contains the tokens of sub, contiguously
includesSeq(s, sub) ==
    \E i \in 1..(Len(s) - Len(sub) + 1) : SubSeq(s, i, i + Len(sub) - 1) = sub

\* udtName with one leading underscore removed
withoutUnderscore(u) == IF Len(u) > 0 /\ u[1] = "_" THEN Tail(u) ELSE u

\* the descriptor names a domain of the catalog
NamesDomain(col, md) ==
    \E i \in 1..Len(md.domains) : md.domains[i].domainName = col.domainName

\* the type name the lookups of a descriptor use
LookupName(col) == IF col.isArray THEN withoutUnderscore(col.udtName) ELSE col.udtName

\* the descriptor matches no domain, custom mapping, enum, composite, range
\* or builtin table entry
Unmatched(col, md, opts) ==
    /\ ~NamesDomain(col, md)
    /\ ~(LookupName(col) \in DOMAIN opts.customTypeMappings
           /\ opts.customTypeMappings[LookupName(col)] # <<>>)
    /\ \A i \in 1..Len(md.enums) : md.enums[i].enumName # LookupName(col)
    /\ \A i \in 1..Len(md.compositeTypes) : md.compositeTypes[i].typeName # LookupName(col)
    /\ \A i \in 1..Len(md.rangeTypes) : md.rangeTypes[i].rangeName # LookupName(col)
    /\ builtinType(IF toLowerCase(col.dataType) = <<"a","r","r","a","y">>
                   THEN LookupName(col) ELSE toLowerCase(col.dataType), col) = Unmapped

-----------------------------------------------------------------------------
(* Domain references (SpecResolve) *)

\* C1: a descriptor whose domainName names a domain of the catalog resolves to
\* the identifier that domain's generated schema declares, whatever its
\* isArray, arrayDimensions, udtName and the customTypeMappings are, and no
\* warning is recorded.
C1_DomainReference ==
    \A i \in 1..Len(metadata.domains) :
        (pc # "call" /\ metadata.domains[i].domainName = column.domainName) =>
            /\ pc = "done"
            /\ stripNullable(result)
                 = definedConstant(generateDomainSchema(metadata.domains[i], metadata, options, <<>>).value)
            /\ warnings = <<>>

C1_Witness ==
    /\ pc = "done"
    /\ NamesDomain(column, metadata)
    /\ column.isArray /\ column.arrayDimensions = 2
    /\ column.udtName = <<"_","m","o","o","d">>
    /\ metadata.enums # <<>>
    /\ options.customTypeMappings = someMappings
    /\ result = <<"M","y","A","p","p","E","m","a","i","l">> \o <<"Schema">>

\* C2: a domain reference carries .nullable() exactly when the column's own
\* isNullable is true; the domain's isNullable has no influence.
C2_ColumnNullability ==
    (pc = "done" /\ NamesDomain(column, metadata)) =>
        (endsWithNullable(result) <=> column.isNullable)

C2_Witness ==
    /\ pc = "done"
    /\ column.isNullable
    /\ \E i \in 1..Len(metadata.domains) :
         metadata.domains[i].domainName = column.domainName /\ ~metadata.domains[i].isNullable
    /\ result = <<"M","y","A","p","p","E","m","a","i","l">> \o <<"Schema", ".nullable()">>

-----------------------------------------------------------------------------
(* Arrays (SpecResolve) *)

\* C3: an array descriptor without a matching domain resolves to the element
\* expression of mapBaseTypeToZod inside exactly arrayDimensions z.array( )
\* layers, and inside exactly one layer when arrayDimensions is 0.
C3_ArrayLayers ==
    (pc = "done" /\ column.isArray /\ ~NamesDomain(column, metadata)) =>
        Layered(stripNullable(result),
                mapBaseTypeToZod(column, metadata, options, <<>>).value,
                IF column.arrayDimensions >= 1 THEN column.arrayDimensions ELSE 1)

C3_Witness ==
    /\ pc = "done" /\ column.isArray /\ ~NamesDomain(column, metadata)
    /\ column.arrayDimensions = 2
    /\ result = <<"z.array(", "z.array(", "z.number()", ".int()", ")", ")">>

\* the identifier the generated schema of the enum named name declares
EnumReference(name) ==
    LET e == metadata.enums[CHOOSE i \in 1..Len(metadata.enums) : metadata.enums[i].enumName = name]
    IN  definedConstant(generateEnumSchema(e.enumName, e.enumValues, options, e.schemaName))

IsEnumName(name) == \E i \in 1..Len(metadata.enums) : metadata.enums[i].enumName = name

-----------------------------------------------------------------------------
(* Unmapped types *)

\* C5: without strictMode, a descriptor that matches no domain, custom
\* mapping, enum, composite, range or builtin entry resolves, without a
\* throw, to the unknown marker inside its array and nullable wrappers, and
\* the call appends exactly one warning.
C5_UnknownFallback ==
    (pc # "call" /\ ~options.strictMode /\ Unmatched(column, metadata, options)) =>
        /\ pc = "done" /\ error = NoError
        /\ endsWithNullable(result) <=> column.isNullable
        /\ IF column.isArray
           THEN Layered(stripNullable(result), <<"z.unknown() /* unmapped type */">>,
                        IF column.arrayDimensions >= 1 THEN column.arrayDimensions ELSE 1)
           ELSE stripNullable(result) = <<"z.unknown() /* unmapped type */">>
        /\ Len(warnings) = 1

C5_Witness ==
    /\ pc = "done" /\ ~options.strictMode /\ Unmatched(column, metadata, options)
    /\ column.udtName = <<"h","s","t","o","r","e">>
    /\ result = <<"z.unknown() /* unmapped type */", ".nullable()">>
    /\ Len(warnings) = 1

\* the descriptors a run of generateSchemas resolves: the attributes of the
\* composite types (when they are generated), the base types of the domains
\* and the columns of the tables
ResolvedDescriptors ==
    (IF options.includeCompositeTypes
     THEN {compositeMockColumn(metadata.compositeTypes[i].attributes[j]) :
             <<i, j>> \in {p \in (1..Len(metadata.compositeTypes)) \X (1..2) :
                              p[2] <= Len(metadata.compositeTypes[p[1]].attributes)}}
     ELSE {})
    \cup {domainMockColumn(metadata.domains[i]) : i \in 1..Len(metadata.domains)}
    \cup UNION {{metadata.tables[i].columns[j] : j \in 1..Len(metadata.tables[i].columns)} :
                  i \in 1..Len(metadata.tables)}

\* C6: with strictMode, a run that resolves a descriptor of unmapped type
\* never returns a result: it ends in a throw whose message names the column
\* and the type of such a descriptor.
C6_StrictModeHalts ==
    options.strictMode =>
        /\ pc = "done" => \A d \in ResolvedDescriptors : ~Unmatched(d, metadata, options)
        /\ pc = "thrown" =>
             /\ result = NoResult
             /\ \E d \in ResolvedDescriptors :
                  /\ Unmatched(d, metadata, options)
                  /\ includesSeq(error, d.columnName)
                  /\ includesSeq(error, d.udtName)

C6_Witness ==
    /\ pc = "thrown" /\ options.strictMode /\ result = NoResult
    /\ error = <<"Unknown type: ">> \o <<"u","s","e","r","-","d","e","f","i","n","e","d">> \o <<" (udt: ">> \o <<"h","s","t","o","r","e">>
                 \o <<") in column ">> \o <<"g","e","o","_","t","a","g">>

-----------------------------------------------------------------------------
(* Check constraints *)

\* C7: a single clause "col >= A AND col <= B" applied to z.number().int()
\* yields an integer validator that carries both .min(A) and .max(B).
C7_BothBounds ==
    \A A \in {<<"0">>, <<"5">>} : \A B \in {<<"0">>, <<"5">>} :
        (/\ pc = "done"
         /\ baseSchema = <<"z.number()", ".int()">>
         /\ Len(constraints) = 1
         /\ constraints[1].checkClause
              = columnName \o <<" ", ">", "=", " ">> \o A \o <<" ", "A", "N", "D", " ">>
                  \o columnName \o <<" ", "<", "=", " ">> \o B) =>
            /\ includes(result, "z.number()") /\ includes(result, ".int()")
            /\ includesSeq(result, <<".min(">> \o A \o <<")">>)
            /\ includesSeq(result, <<".max(">> \o B \o <<")">>)

\* C8: a clause col = ANY (ARRAY['v1', ..., 'vn']) applied to a string
\* validator yields exactly z.enum(['v1', ..., 'vn']): the literals of the
\* clause, unchanged and in clause order, in place of the base expression.
C8_ExactEnumeration ==
    \A vs \in {<<<<"D","r","a","f","t">>, <<"b">>>>, <<<<"a">>, <<"b">>>>} :
        (/\ pc = "done"
         /\ includes(baseSchema, "z.string()")
         /\ Len(constraints) = 1
         /\ constraints[1].checkClause
              = columnName \o <<" ","="," ","A","N","Y"," ","(","A","R","R","A","Y","[">>
                  \o join([i \in 1..Len(vs) |-> <<"'">> \o vs[i] \o <<"'">>], <<",", " ">>)
                  \o <<"]", ")">>) =>
            result = <<"z.enum([">>
                       \o join([i \in 1..Len(vs) |-> <<"'">> \o vs[i] \o <<"'">>], <<", ">>)
                       \o <<"])">>

\* C9: a domain check constraint over VALUE is translated into the domain's
\* generated validator: a pattern clause gives a .regex( ) constraint, a
\* bound clause a .min( ) bound, and no clause is left as a CHECK annotation.
C9_DomainConstraintTranslated ==
    pc = "done" =>
        \A i \in {n \in 1..Len(metadata.domains) : Len(metadata.domains[n].checkConstraints) > 0} :
            LET clause == metadata.domains[i].checkConstraints[1].checkClause
                code == result.domains[i].code
            IN  /\ clause = domainClauseRegex => includes(code, ".regex(/")
                /\ clause = domainClauseBound => includes(code, ".min(")
                /\ ~includes(code, " /* CHECK: ")

\* C10: a clause col ~ 'P' applied to a string validator adds .regex(/P/)
\* with P character for character as in the clause, letter case included.
C10_PatternVerbatim ==
    \A P \in {<<"^","[","A","-","Z","]","x","$">>, <<"a","b">>} :
        (/\ pc = "done"
         /\ includes(baseSchema, "z.string()")
         /\ Len(constraints) = 1
         /\ constraints[1].checkClause = columnName \o <<" ", "~", " ", "'">> \o P \o <<"'">>) =>
            includesSeq(result, <<".regex(/">> \o P \o <<"/)">>)

-----------------------------------------------------------------------------
(* Table schemas (Spec) *)

\* the field names of the object literal in code: each text between an
\* indentation "  " and the ": " that follows it
fieldNamesOf(code) ==
    {SubSeq(code, i + 1,
            (CHOOSE j \in (i + 1)..Len(code) :
                 code[j] = ": " /\ \A k \in (i + 1)..(j - 1) : code[k] # ": ") - 1) :
       i \in {n \in 1..Len(code) : code[n] = "  "}}

\* the fields of the Update schema of a generated table entry: X.partial()
\* has the fields of X, each made optional
updateFieldNames(s) ==
    IF includesSeq(s.typeDefinitions,
                   <<" = ">> \o definedConstant(s.readSchema) \o <<".partial()", ";\n">>)
    THEN fieldNamesOf(s.readSchema) ELSE {}

isPrimaryKey(table, col) ==
    \E p \in 1..Len(table.primaryKeys) : table.primaryKeys[p] = col.columnName

\* C11: the Update schema of a table holds every column that is not part of
\* the primary key (as an optional field) and none of the primary key columns.
C11_UpdateExcludesPrimaryKeys ==
    \A i \in 1..Len(schemas) :
        options.generateInputSchemas =>
            \A k \in 1..Len(metadata.tables[i].columns) :
                LET col == metadata.tables[i].columns[k]
                IN  (fieldNameOf(options, col.columnName) \in updateFieldNames(schemas[i]))
                      <=> ~isPrimaryKey(metadata.tables[i], col)

\* the fields the Insert schema of a generated table entry overrides with an
\* optional validator
insertOptionalFields(s) ==
    IF includes(s.inputSchema, ".extend({\n") THEN fieldNamesOf(s.inputSchema) ELSE {}

-----------------------------------------------------------------------------
(* Custom type mappings (SpecResolve) *)

\* r is the element expression e inside the array and nullable wrappers of col
Wrapped(r, e, col) ==
    IF col.isArray
    THEN Layered(stripNullable(r), e, IF col.arrayDimensions >= 1 THEN col.arrayDimensions ELSE 1)
    ELSE stripNullable(r) = e

-----------------------------------------------------------------------------
(* Check constraints, continued (SpecCheck) *)

\* C14: a clause col IN (...) met with a validator that is not a string
\* validator adds no enumeration and is kept as a comment annotation.
C14_InDemotedToComment ==
    (/\ pc = "done"
     /\ ~includes(baseSchema, "z.string()")
     /\ Len(constraints) = 1
     /\ constraints[1].checkClause
          = columnName \o <<" ","I","N"," ","(","'","a","'",","," ","'","B","'",")">>) =>
        /\ ~includes(result, "z.enum([")
        /\ includesSeq(result, <<" /* CHECK: ">> \o constraints[1].checkClause \o <<" */">>)

\* the clause list of the run, lower-cased
lowerClauses == [i \in 1..Len(constraints) |-> toLowerCase(constraints[i].checkClause)]

\* the bound clauses the runs hold in plain form: operator, marker, numbers
BoundKinds ==
    {[op |-> <<">", "=">>, marker |-> ".min(", numbers |-> {<<"1","8">>, <<"7">>}],
     [op |-> <<"<", "=">>, marker |-> ".max(", numbers |-> {<<"5">>, <<"9">>}]}

\* the run applied "col op A" and then "col op B" to a number validator
TwoBounds(kind, A, B) ==
    /\ pc = "done" /\ includes(baseSchema, "z.number()")
    /\ columnName = <<"q","t","y">>
    /\ Len(constraints) = 2
    /\ lowerClauses[1] = columnName \o <<" ">> \o kind.op \o <<" ">> \o A
    /\ lowerClauses[2] = columnName \o <<" ">> \o kind.op \o <<" ">> \o B

commentOf(clause) == <<" /* CHECK: ">> \o clause \o <<" */">>

\* the last clause of the run matches none of the patterns: it is the text
\* with the operator <>, or the column name has an upper-case letter, which
\* the lower-cased clause never holds
LastClauseUnmatched ==
    /\ Len(constraints) > 0
    /\ \/ /\ columnName = <<"q","t","y">>
          /\ constraints[Len(constraints)].checkClause
               = <<"q","t","y"," ","<",">"," ","0">>
       \/ columnName = <<"Q","t","y">>

\* C16: a clause that matches none of the patterns leaves the expression
\* built from the clauses before it unchanged and appends exactly one comment
\* annotation that carries the clause text as the catalog has it.
C16_UnparsedAnnotation ==
    (pc # "call" /\ LastClauseUnmatched) =>
        /\ pc = "done"
        /\ result = applyCheckConstraints(columnName, baseSchema,
                                          SubSeq(constraints, 1, Len(constraints) - 1)).value
                       \o commentOf(constraints[Len(constraints)].checkClause)

C16_Witness ==
    /\ pc = "done" /\ columnName = <<"q","t","y">>
    /\ baseSchema = <<"z.number()", ".int()">>
    /\ Len(constraints) = 2
    /\ constraints[2].checkClause = <<"q","t","y"," ","<",">"," ","0">>
    /\ result = <<"z.number()", ".min(", "1", "8", ")", ".int()", " /* CHECK: ">>
                   \o <<"q","t","y"," ","<",">"," ","0">> \o <<" */">>

\* C18: applyCheckConstraints returns an expression for every column name and
\* every clause list; it never throws.
C18_NeverThrows ==
    pc # "call" => (pc = "done" /\ result # NoResult /\ error = NoError)

\* number of occurrences of the token tok in s
RECURSIVE count(_, _)
count(s, tok) ==
    IF Len(s) = 0 THEN 0 ELSE (IF Head(s) = tok THEN 1 ELSE 0) + count(Tail(s), tok)

\* number of constraint and annotation tokens of s
rewrites(s) ==
    count(s, ".min(") + count(s, ".max(") + count(s, ".regex(/") + count(s, "z.enum([")
      + count(s, " /* CHECK: ")

\* the run applied the one clause text to a validator that holds tok
SingleClause(text, tok) ==
    /\ pc = "done" /\ columnName = <<"q","t","y">> /\ includes(baseSchema, tok)
    /\ Len(constraints) = 1 /\ constraints[1].checkClause = text

-----------------------------------------------------------------------------
(* Runs without strictMode (Spec) *)

-----------------------------------------------------------------------------
(* Lookup order of mapBaseTypeToZod (SpecResolve) *)

\* the identifier the generated schema of the composite type named name
\* declares (read off a generation that does not stop at an unmapped attribute)
CompositeReference(name) ==
    LET t == metadata.compositeTypes[CHOOSE i \in 1..Len(metadata.compositeTypes) :
                                         metadata.compositeTypes[i].typeName = name]
    IN  definedConstant(generateCompositeTypeSchema(t, metadata, [options EXCEPT !.strictMode = FALSE],
                                                    <<>>).value)

\* the identifier the generated schema of the range type named name declares
RangeReference(name) ==
    LET r == metadata.rangeTypes[CHOOSE i \in 1..Len(metadata.rangeTypes) :
                                     metadata.rangeTypes[i].rangeName = name]
    IN  definedConstant(generateRangeSchema(r.rangeName, r.subtype, options, r.schemaName))

IsCompositeName(name) ==
    \E i \in 1..Len(metadata.compositeTypes) : metadata.compositeTypes[i].typeName = name

IsRangeName(name) ==
    \E i \in 1..Len(metadata.rangeTypes) : metadata.rangeTypes[i].rangeName = name

\* C20: a descriptor that names no domain and has no custom override resolves
\* its type name against the enums first, then the composite types (whose
\* reference ends in CompositeSchema), then the range types, and against the
\* builtin table only when the name is in none of the three catalogs.
C20_LookupOrder ==
    (/\ pc # "call" /\ ~NamesDomain(column, metadata)
     /\ ~hasCustomTypeMapping(options, LookupName(column))) =>
        LET name == LookupName(column)
            typeToCheck == IF toLowerCase(column.dataType) = <<"a","r","r","a","y">>
                           THEN name ELSE toLowerCase(column.dataType)
        IN  IF IsEnumName(name)
              THEN pc = "done" /\ Wrapped(result, EnumReference(name), column)
            ELSE IF IsCompositeName(name)
              THEN /\ pc = "done" /\ Wrapped(result, CompositeReference(name), column)
                   /\ includesSeq(result, <<"Composite", "Schema">>)
            ELSE IF IsRangeName(name)
              THEN pc = "done" /\ Wrapped(result, RangeReference(name), column)
            ELSE builtinType(typeToCheck, column) # Unmapped =>
                   (pc = "done" /\ Wrapped(result, builtinType(typeToCheck, column), column))

C20_Witness ==
    /\ pc = "done" /\ ~NamesDomain(column, metadata)
    /\ options.customTypeMappings = noMappings
    /\ column.udtName = <<"m","o","o","d">> /\ ~column.isArray
    /\ column.dataType = <<"i","n","t","e","g","e","r">>
    /\ metadata.enums = <<>> /\ metadata.compositeTypes # <<>> /\ metadata.rangeTypes # <<>>
    /\ stripNullable(result) = <<"P","u","b","l","i","c","M","o","o","d">> \o <<"Composite", "Schema">>

-----------------------------------------------------------------------------
(* Nullability of arrays (SpecResolve) *)

\* C21: the result of mapColumnToZod for a nullable array descriptor holds
\* .nullable() exactly once, as its last token, after the closing of every
\* z.array( ) layer: no layer and no element expression inside carries it; the
\* result for a descriptor that is not nullable holds no .nullable() at all.
C21_NullableOutermost ==
    (pc = "done" /\ column.isArray) =>
        /\ count(result, ".nullable()") = (IF column.isNullable THEN 1 ELSE 0)
        /\ column.isNullable => endsWithNullable(result)
        /\ ~includes(stripNullable(result), ".nullable()")

C21_Witness ==
    /\ pc = "done" /\ column.isArray /\ column.isNullable /\ column.arrayDimensions = 2
    /\ ~NamesDomain(column, metadata)
    /\ result = <<"z.array(", "z.array(", "z.number()", ".int()", ")", ")", ".nullable()">>

-----------------------------------------------------------------------------
(* Bounds on z.bigint() (SpecCheck) *)

\* the one clause of the run, lower-cased, is text and the validator is z.bigint()
BigintClause(text) ==
    /\ pc = "done" /\ columnName = <<"q","t","y">> /\ baseSchema = <<"z.bigint()">>
    /\ Len(constraints) = 1 /\ lowerClauses[1] = text

\* C22: each of the clauses col >= N, col > N, col <= N, col < N and
\* col BETWEEN A AND B applied to z.bigint() adds the min and/or max bound of
\* the clause, written with the integer-literal suffix n.
C22_BigintBounds ==
    /\ BigintClause(<<"q","t","y"," ",">","="," ","1","8">>) =>
          result = <<"z.bigint()", ".min(", "1", "8", "n)">>
    /\ BigintClause(<<"q","t","y"," ","<","="," ","5">>) =>
          result = <<"z.bigint()", ".max(", "5", "n)">>
    /\ BigintClause(<<"q","t","y"," ",">"," ","0">>) =>
          (includes(result, ".min(") /\ includes(result, "n)"))
    /\ BigintClause(<<"q","t","y"," ","b","e","t","w","e","e","n"," ","1"," ","a","n","d"," ","5">>) =>
          (includes(result, ".min(") /\ includes(result, ".max(") /\ includes(result, "n)"))

-----------------------------------------------------------------------------
(* Letter case of the column name (SpecCheck) *)

\* C23: a clause that names the column is recognised whatever the letter case
\* of columnName: the column Qty with the clause Qty >= 7 on a number
\* validator gets the bound .min(7).
C23_ColumnNameAnyCase ==
    (/\ pc = "done" /\ columnName = <<"Q","t","y">>
     /\ includes(baseSchema, "z.number()")
     /\ Len(constraints) = 1
     /\ constraints[1].checkClause = columnName \o <<" ",">","="," ","7">>) =>
        /\ includesSeq(result, <<".min(", "7", ")">>)
        /\ ~includes(result, " /* CHECK: ")

-----------------------------------------------------------------------------
(* Every clause leaves a trace (SpecCheck) *)

\* the expression after the first n clauses of the run
afterClauses(n) ==
    applyCheckConstraints(columnName, baseSchema, SubSeq(constraints, 1, n)).value

\* C24: every clause of the list is reflected in the output: the pass of the
\* loop for it either changes the validator expression or appends a comment
\* annotation with the clause text; no clause is dropped without a trace.
C24_NoClauseDropped ==
    pc = "done" =>
        \A i \in 1..Len(constraints) :
            \/ afterClauses(i) # afterClauses(i - 1)
            \/ includesSeq(afterClauses(i), commentOf(constraints[i].checkClause))

-----------------------------------------------------------------------------
(* Namespaces of custom types (Spec) *)

\* C25: custom-type lookup is keyed by local name plus namespace: when the
\* catalog holds enums of the same local name in two namespaces, a table
\* column of that type resolves to the schema of the enum in the column's own
\* namespace (that of its table), not to the first entry of that local name.
C25_NamespaceKeyedLookup ==
    \A i \in 1..Len(schemas) : \A k \in 1..Len(metadata.tables[i].columns) :
        LET table == metadata.tables[i]
            col == table.columns[k]
        IN  \A e \in 1..Len(metadata.enums) :
                (/\ ~NamesDomain(col, metadata)
                 /\ metadata.enums[e].enumName = LookupName(col)
                 /\ metadata.enums[e].schemaName = table.schemaName) =>
                    includesSeq(schemas[i].readSchema,
                                fullNameOf(metadata.enums[e].schemaName, metadata.enums[e].enumName)
                                  \o <<"Schema">>)

-----------------------------------------------------------------------------
(* References between generated definitions (Spec) *)

\* the tokens an identifier of a generated schema is written with
IdentifierTokens ==
    {LowerLetters[i] : i \in 1..26} \cup {UpperLetters[i] : i \in 1..26} \cup {"Composite"}

\* the identifier of code that ends with the token at position j
identifierEndingAt(code, j) ==
    LET first == CHOOSE i \in 1..j :
                     /\ \A k \in i..(j - 1) : code[k] \in IdentifierTokens
                     /\ (i > 1 => code[i - 1] \notin IdentifierTokens)
    IN  SubSeq(code, first, j)

\* the schema identifiers code mentions: every identifier that ends in Schema
schemaIdentifiers(code) ==
    {identifierEndingAt(code, j) : j \in {n \in 1..Len(code) : code[n] = "Schema"}}

\* the schema constants the entries of a list of generated definitions declare
declaredBy(entries) == {definedConstant(entries[i].code) : i \in 1..Len(entries)}

\* C26: every schema identifier that a table, domain or composite definition
\* of a generation result mentions is declared by a definition of the same
\* result (its enums, domains, ranges, compositeTypes or table schemas),
\* whatever the options are.
C26_ReferencesDefined ==
    pc = "done" =>
        LET declared == declaredBy(result.enums) \cup declaredBy(result.domains)
                          \cup declaredBy(result.ranges) \cup declaredBy(result.compositeTypes)
                          \cup {definedConstant(result.schemas[i].readSchema) :
                                  i \in 1..Len(result.schemas)}
        IN  /\ \A i \in 1..Len(result.schemas) :
                   schemaIdentifiers(result.schemas[i].readSchema) \subseteq declared
            /\ \A i \in 1..Len(result.domains) :
                   schemaIdentifiers(result.domains[i].code) \subseteq declared
            /\ \A i \in 1..Len(result.compositeTypes) :
                   schemaIdentifiers(result.compositeTypes[i].code) \subseteq declared

-----------------------------------------------------------------------------
(* Order of the definitions in the document (Spec) *)

\* the document declares the constant id at position p: export const id = ...
declaredAt(doc, id, p) ==
    /\ doc[p] = "export const "
    /\ p + Len(id) + 1 <= Len(doc)
    /\ SubSeq(doc, p + 1, p + Len(id)) = id
    /\ doc[p + Len(id) + 1] = " = "

\* C27: in the document formatOutput returns, every schema constant the
\* document declares is declared before the first place that mentions it: no
\* definition refers to a constant that is only declared further down.
C27_DefinedBeforeUse ==
    pc = "formatted" =>
        \A j \in {n \in 1..Len(output) : output[n] = "Schema"} :
            LET id == identifierEndingAt(output, j)
            IN  (\E p \in 1..Len(output) : declaredAt(output, id, p))
                  => \E p \in 1..j : declaredAt(output, id, p)

-----------------------------------------------------------------------------
(* Nullability of constrained columns (Spec) *)

\* the validator expression of the field name in the object literal of code:
\* the text between "  name: " and the ",\n" that ends the line
fieldExpression(code, name) ==
    LET a == CHOOSE i \in 1..Len(code) :
                 /\ code[i] = "  "
                 /\ SubSeq(code, i + 1, i + Len(name)) = name
                 /\ code[i + Len(name) + 1] = ": "
        from == a + Len(name) + 2
        to == CHOOSE j \in from..Len(code) :
                  code[j] = ",\n" /\ \A k \in from..(j - 1) : code[k] # ",\n"
    IN  SubSeq(code, from, to - 1)

\* C28: the field of a nullable table column carries .nullable() in the Read
\* schema of its table, whatever check clauses were applied to the column.
C28_NullabilitySurvives ==
    \A i \in 1..Len(schemas) : \A k \in 1..Len(metadata.tables[i].columns) :
        LET col == metadata.tables[i].columns[k]
        IN  col.isNullable =>
                includes(fieldExpression(schemas[i].readSchema, fieldNameOf(options, col.columnName)),
                         ".nullable()")

-----------------------------------------------------------------------------
(* Number of warnings (Spec) *)

RECURSIVE sum(_)
sum(numbers) == IF Len(numbers) = 0 THEN 0 ELSE Head(numbers) + sum(Tail(numbers))

\* 1 when the descriptor is of unmapped type, else 0
unmappedOccurrence(col) == IF Unmatched(col, metadata, options) THEN 1 ELSE 0

\* the number of descriptors of unmapped type a run resolves: the columns of
\* the tables, the base types of the domains and the attributes of the
\* composite types that are generated
unmappedOccurrences ==
    sum([i \in 1..Len(metadata.tables) |->
            sum([k \in 1..Len(metadata.tables[i].columns) |->
                    unmappedOccurrence(metadata.tables[i].columns[k])])])
      + sum([i \in 1..Len(metadata.domains) |->
                unmappedOccurrence(domainMockColumn(metadata.domains[i]))])
      + (IF options.includeCompositeTypes
         THEN sum([i \in 1..Len(metadata.compositeTypes) |->
                      sum([k \in 1..Len(metadata.compositeTypes[i].attributes) |->
                              unmappedOccurrence(compositeMockColumn(
                                  metadata.compositeTypes[i].attributes[k]))])])
         ELSE 0)

\* C29: without strictMode the warnings list of the result holds exactly one
\* entry per occurrence of an unmapped type, whether or not the column has a
\* default and whether or not the input schemas are generated.
C29_OneWarningPerOccurrence ==
    (pc = "done" /\ ~options.strictMode) =>
        Len(result.warnings) = unmappedOccurrences

-----------------------------------------------------------------------------
(* Unknown markers (Spec) *)

\* code holds an unknown marker: the z.unknown() of the default branch of
\* mapBaseTypeToZod or that of mapSubtypeToZod
hasUnknownMarker(code) ==
    includes(code, "z.unknown() /* unmapped type */") \/ includes(code, "z.unknown()")

\* the warnings list of the result has an entry that holds text
warned(text) ==
    \E w \in 1..Len(result.warnings) : includesSeq(result.warnings[w], text)

\* C30: a result never holds an unknown marker under strictMode, and without
\* strictMode every definition that holds one comes with a warning that names
\* its source: the subtype of the range type, the base type of the domain, an
\* attribute of the composite type or a column of the table.
C30_UnknownMarkerWarned ==
    pc = "done" =>
        /\ \A i \in 1..Len(result.ranges) :
               hasUnknownMarker(result.ranges[i].code) =>
                   (~options.strictMode /\ warned(metadata.rangeTypes[i].subtype))
        /\ \A i \in 1..Len(result.domains) :
               hasUnknownMarker(result.domains[i].code) =>
                   (~options.strictMode /\ warned(metadata.domains[i].domainName))
        /\ \A i \in 1..Len(result.compositeTypes) :
               hasUnknownMarker(result.compositeTypes[i].code) =>
                   /\ ~options.strictMode
                   /\ \E k \in 1..Len(metadata.compositeTypes[i].attributes) :
                          warned(metadata.compositeTypes[i].attributes[k].attributeName)
        /\ \A i \in 1..Len(result.schemas) :
               hasUnknownMarker(result.schemas[i].readSchema) =>
                   /\ ~options.strictMode
                   /\ \E k \in 1..Len(metadata.tables[i].columns) :
                          warned(metadata.tables[i].columns[k].columnName)

====
